---- MODULE Spec2Model ----
(***************************************************************************)
(* LEDES98BI editor: the format codec (LedesFileHandler) and the           *)
(* three-tier validation engine (LedesValidator).                          *)
(*                                                                         *)
(* Representation.  A JavaScript string is a sequence of code units; each  *)
(* code unit is a one-character TLA+ string.  A field name or another      *)
(* fixed word (a header name, "constructor", "LEDES98BI") is written as    *)
(* one multi-character unit: a run of word characters that no operation    *)
(* of the program ever cuts (split, trim and the regular expressions act   *)
(* on the delimiters and digits around it).  W(n) is the string made of    *)
(* the single word n.                                                      *)
(***************************************************************************)
EXTENDS Integers, Sequences, FiniteSets, TLC

VARIABLES
    data,        \* codec: the LedesData handed to formatForDownload
    content,     \* codec: the text produced / parsed
    parsed,      \* codec: the outcome of parseFile(content)
    fieldName,   \* validateField: its fieldName argument
    value,       \* validateField: its value argument
    fieldResult, \* validateField: its outcome
    headers,     \* validateDataset: its headers argument
    dataset,     \* validateDataset: its dataset argument (string[][])
    result,      \* validateDataset: its outcome
    crossRow,    \* validateCrossFieldRow: its rowData argument
    crossErrors, \* validateCrossFieldRow: its outcome
    formatResult, \* validateFileFormat: its outcome on content
    calls,       \* one LedesValidator instance and the calls made on it
    hook,        \* useLedesData and the page: state, timers and file reads
    pc           \* position of the run

vars == <<data, content, parsed, fieldName, value, fieldResult,
          headers, dataset, result, crossRow, crossErrors,
          formatResult, calls, hook, pc>>

\* A variable the running specification does not use.
Unused == "-"

\* The string made of the word n.
W(n) == <<n>>

\* ------------------------------------------------------------------------
\* JavaScript string primitives
\* ------------------------------------------------------------------------

Range(s) == {s[i] : i \in 1..Len(s)}

Min(a, b) == IF a < b THEN a ELSE b

Max(a, b) == IF a > b THEN a ELSE b

\* The white space String.prototype.trim removes and \s matches.
WhiteSpace == {" ", "\t", "\n", "\r"}

Digits == {"0", "1", "2", "3", "4", "5", "6", "7", "8", "9"}

DigitVal(c) ==
    CASE c = "0" -> 0 [] c = "1" -> 1 [] c = "2" -> 2 [] c = "3" -> 3
      [] c = "4" -> 4 [] c = "5" -> 5 [] c = "6" -> 6 [] c = "7" -> 7
      [] c = "8" -> 8 [] c = "9" -> 9

DigitChar(d) ==
    CASE d = 0 -> "0" [] d = 1 -> "1" [] d = 2 -> "2" [] d = 3 -> "3"
      [] d = 4 -> "4" [] d = 5 -> "5" [] d = 6 -> "6" [] d = 7 -> "7"
      [] d = 8 -> "8" [] d = 9 -> "9"

\* String.prototype.length: a word counts its characters.
RECURSIVE StrLen(_)
StrLen(s) == IF s = <<>> THEN 0 ELSE Len(Head(s)) + StrLen(Tail(s))

RECURSIVE TrimStart(_)
TrimStart(s) ==
    IF s # <<>> /\ Head(s) \in WhiteSpace THEN TrimStart(Tail(s)) ELSE s

RECURSIVE TrimEnd(_)
TrimEnd(s) ==
    IF s # <<>> /\ s[Len(s)] \in WhiteSpace
    THEN TrimEnd(SubSeq(s, 1, Len(s) - 1))
    ELSE s

\* String.prototype.trim
Trim(s) == TrimEnd(TrimStart(s))

\* String.prototype.includes for a one-unit needle
Includes(s, c) == \E i \in 1..Len(s) : s[i] = c

\* String.prototype.includes for a longer needle
IncludesStr(s, sub) ==
    \E i \in 1..(Len(s) - Len(sub) + 1) : SubSeq(s, i, i + Len(sub) - 1) = sub

\* String.prototype.endsWith
EndsWith(s, suf) ==
    Len(s) >= Len(suf) /\ SubSeq(s, Len(s) - Len(suf) + 1, Len(s)) = suf

\* String.prototype.split on a one-unit separator: "" splits to [""].
RECURSIVE Split(_, _)
Split(s, sep) ==
    IF Includes(s, sep)
    THEN LET i == CHOOSE k \in 1..Len(s) :
                     s[k] = sep /\ \A j \in 1..(k - 1) : s[j] # sep
         IN <<SubSeq(s, 1, i - 1)>> \o Split(SubSeq(s, i + 1, Len(s)), sep)
    ELSE <<s>>

\* Array.prototype.join
RECURSIVE Join(_, _)
Join(ss, sep) ==
    IF ss = <<>> THEN <<>>
    ELSE IF Len(ss) = 1 THEN ss[1]
    ELSE ss[1] \o sep \o Join(Tail(ss), sep)

\* Array.prototype.map
Map(ss, F(_)) == [i \in 1..Len(ss) |-> F(ss[i])]

\* Array.prototype.indexOf, 1-based; 0 when absent (the code's -1 + 1)
IndexOf(ss, x) ==
    IF \E i \in 1..Len(ss) : ss[i] = x
    THEN CHOOSE i \in 1..Len(ss) : ss[i] = x /\ \A j \in 1..(i - 1) : ss[j] # x
    ELSE 0

\* The last position of x in ss; 0 when absent
LastIndexOf(ss, x) ==
    IF \E i \in 1..Len(ss) : ss[i] = x
    THEN CHOOSE i \in 1..Len(ss) :
             ss[i] = x /\ \A j \in (i + 1)..Len(ss) : ss[j] # x
    ELSE 0

\* The property names every plain object inherits from Object.prototype.
\* A lookup obj[k] with such a k finds the inherited member when obj has no
\* own property k.
ObjectPrototypeNames ==
    {W("constructor"), W("toString"), W("toLocaleString"), W("valueOf"),
     W("hasOwnProperty"), W("isPrototypeOf"), W("propertyIsEnumerable"),
     W("__proto__"), W("__defineGetter__"), W("__defineSetter__"),
     W("__lookupGetter__"), W("__lookupSetter__")}

\* ------------------------------------------------------------------------
\* types.ts
\* ------------------------------------------------------------------------

LEDES_HEADERS ==
    <<W("INVOICE_DATE"), W("INVOICE_NUMBER"), W("CLIENT_MATTER_ID"),
      W("INVOICE_TOTAL"), W("INVOICE_DESCRIPTION"), W("LAW_FIRM_MATTER_ID"),
      W("BILLING_START_DATE"), W("BILLING_END_DATE"), W("INVOICE_TAX_TOTAL"),
      W("INVOICE_NET_TOTAL"), W("INVOICE_CURRENCY"),
      W("INVOICE_TAX_CURRENCY"), W("INVOICE_REPORTED_TAX_TOTAL"),
      W("LINE_ITEM_NUMBER"), W("LINE_ITEM_NUMBER_OF_UNITS"),
      W("LINE_ITEM_DATE"), W("LINE_ITEM_UNIT_COST"),
      W("LINE_ITEM_ADJUSTMENT_AMOUNT"), W("LINE_ITEM_TOTAL"),
      W("LINE_ITEM_TAX_TOTAL"), W("LINE_ITEM_TAX_RATE"),
      W("LINE_ITEM_DESCRIPTION"), W("LINE_ITEM_TYPE"),
      W("LINE_ITEM_EXPENSE_TYPE"), W("LINE_ITEM_TASK_CODE"),
      W("LINE_ITEM_ACTIVITY_CODE"), W("LINE_ITEM_LAWYER_ID"),
      W("LINE_ITEM_EXP_DESCRIPTION"), W("LAW_FIRM_NAME"),
      W("LAW_FIRM_ADDRESS_1"), W("LAW_FIRM_ADDRESS_2"), W("LAW_FIRM_CITY"),
      W("LAW_FIRM_STATEorREGION"), W("LAW_FIRM_POSTCODE"),
      W("LAW_FIRM_COUNTRY"), W("LAW_FIRM_PHONE"), W("LAW_FIRM_FAX"),
      W("LAW_FIRM_EMAIL"), W("LAW_FIRM_REGISTRATION_ID"), W("CLIENT_NAME"),
      W("CLIENT_ADDRESS_1"), W("CLIENT_ADDRESS_2"), W("CLIENT_CITY"),
      W("CLIENT_STATEorREGION"), W("CLIENT_POSTCODE"), W("CLIENT_COUNTRY"),
      W("CLIENT_PHONE"), W("CLIENT_FAX"), W("CLIENT_EMAIL"),
      W("CLIENT_REGISTRATION_ID"), W("RESERVED1"), W("RESERVED2"),
      W("RESERVED3")>>

\* ------------------------------------------------------------------------
\* LedesFileHandler
\* ------------------------------------------------------------------------

\* /^LEDES98BI\s+V\d+\[\]$/
IsVersionLine(line) ==
    LET n == Len(line) IN
    /\ n >= 6
    /\ line[1] = "LEDES98BI"
    /\ line[n - 1] = "[" /\ line[n] = "]"
    /\ \E v \in 3..(n - 3) :
          /\ line[v] = "V"
          /\ \A i \in 2..(v - 1) : line[i] \in WhiteSpace
          /\ \A i \in (v + 1)..(n - 2) : line[i] \in Digits

\* NonBlankLines without the filter: every line of the text
AllLines(text) == Split(text, "\n")

\* content.split("\n").filter((line) => line.trim())
NonBlankLines(text) ==
    SelectSeq(Split(text, "\n"), LAMBDA line : Trim(line) # <<>>)

\* The loop over the first three lines: the 1-based position of the header
\* line, 0 when there is none.
HeaderLineIndex(lines) ==
    LET IsHeader(i) == Includes(lines[i], "|") /\ ~IsVersionLine(lines[i])
        cand == {i \in 1..Min(Len(lines), 3) : IsHeader(i)}
    IN IF cand = {} THEN 0
       ELSE CHOOSE i \in cand : \A j \in cand : i <= j

\* StripHeader without the removal of the [] marker
StripHeaderKeepsMarker(h) == Trim(h)

\* h.trim().replace(/\[\]$/, "").trim()
StripHeader(h) ==
    LET t == Trim(h)
    IN Trim(IF EndsWith(t, <<"[", "]">>) THEN SubSeq(t, 1, Len(t) - 2) ELSE t)

\* The filter over the data lines.
IsDataLine(line) ==
    LET trimmedLine == Trim(line)
        fields == Split(trimmedLine, "|")
    IN /\ trimmedLine # <<>>
       /\ ~IsVersionLine(trimmedLine)
       /\ ~(/\ IncludesStr(trimmedLine, <<"[", "]">>)
            /\ EndsWith(trimmedLine, <<"[", "]">>)
            /\ \A i \in 1..Len(fields) : EndsWith(Trim(fields[i]), <<"[", "]">>))
       /\ Includes(trimmedLine, "|")

\* The map over the data lines: pad, then row[header] = (fields[i] || "").trim()
\* for each header in turn, so that a repeated header keeps its last value.
\* Assigning a string to row["__proto__"] creates no property.
ParseRow(line, hdrs) ==
    LET fields == Split(line, "|")
        Field(i) == IF i <= Len(fields) THEN Trim(fields[i]) ELSE <<>>
    IN [h \in Range(hdrs) \ {W("__proto__")} |-> Field(LastIndexOf(hdrs, h))]

\* LedesFileHandler.parseFile
parseFile(text) ==
    LET lines == NonBlankLines(text)
        hi == HeaderLineIndex(lines)
        hdrs == IF hi # 0 THEN Map(Split(lines[hi], "|"), StripHeader)
                ELSE LEDES_HEADERS
        dataLines == SubSeq(lines, hi + 1, Len(lines))
        kept == SelectSeq(dataLines, IsDataLine)
    IN IF Len(lines) = 0
       THEN [threw |-> TRUE, error |-> "File is empty"]
       ELSE [threw |-> FALSE,
             headers |-> hdrs,
             rows |-> [k \in 1..Len(kept) |-> ParseRow(kept[k], hdrs)]]

\* row[header] || ""
RowGet(row, h) == IF h \in DOMAIN row THEN row[h] ELSE <<>>

\* LedesFileHandler.formatForDownload
formatForDownload(d) ==
    LET headerLine == Join(Map(d.headers, LAMBDA h : h \o <<"[", "]">>), <<"|">>)
        DataLine(row) == Join(Map(d.headers, LAMBDA h : RowGet(row, h)), <<"|">>)
    IN Join(<<headerLine>> \o Map(d.rows, DataLine), <<"\n">>)

\* LedesFileHandler.createEmptyRow
createEmptyRow(hdrs) == [h \in Range(hdrs) \ {W("__proto__")} |-> <<>>]

\* ------------------------------------------------------------------------
\* JavaScript numbers
\*
\* A number is NaN, an infinity, or a finite decimal m * 10^(-e), kept
\* normalised (m carries no trailing zero, zero is 0 * 10^0), so that two
\* numbers are equal exactly when their records are.  Arithmetic is exact
\* decimal arithmetic; -0 and 0 are one value, as they are for ===, for Set
\* membership and for String().
\* ------------------------------------------------------------------------

NaN == [k |-> "nan", m |-> 0, e |-> 0]

Infinity(sign) == [k |-> "inf", m |-> sign, e |-> 0]

RECURSIVE Pow10(_)
Pow10(n) == IF n <= 0 THEN 1 ELSE 10 * Pow10(n - 1)

RECURSIVE Normalize(_, _)
Normalize(m, e) ==
    IF m = 0 THEN [k |-> "num", m |-> 0, e |-> 0]
    ELSE IF m % 10 = 0 THEN Normalize(m \div 10, e - 1)
    ELSE [k |-> "num", m |-> m, e |-> e]

Num(i) == Normalize(i, 0)

isNaN(x) == x.k = "nan"

\* The mantissa of x at scale 10^(-E), E >= x.e
Scaled(x, E) == x.m * Pow10(E - x.e)

NumAdd(a, b) ==
    IF a.k = "nan" \/ b.k = "nan" THEN NaN
    ELSE IF a.k = "inf" /\ b.k = "inf" THEN (IF a.m = b.m THEN a ELSE NaN)
    ELSE IF a.k = "inf" THEN a
    ELSE IF b.k = "inf" THEN b
    ELSE LET E == Max(a.e, b.e) IN Normalize(Scaled(a, E) + Scaled(b, E), E)

NumNeg(a) == IF a.k = "nan" THEN NaN ELSE [a EXCEPT !.m = 0 - a.m]

NumSub(a, b) == NumAdd(a, NumNeg(b))

Sign(i) == IF i > 0 THEN 1 ELSE IF i < 0 THEN 0 - 1 ELSE 0

NumMul(a, b) ==
    IF a.k = "nan" \/ b.k = "nan" THEN NaN
    ELSE IF a.k = "inf" \/ b.k = "inf"
         THEN (IF a.m = 0 \/ b.m = 0 THEN NaN ELSE Infinity(Sign(a.m) * Sign(b.m)))
    ELSE Normalize(a.m * b.m, a.e + b.e)

\* Math.abs
NumAbs(a) == IF a.m < 0 THEN [a EXCEPT !.m = 0 - a.m] ELSE a

\* a > b; false when either is NaN
NumGt(a, b) ==
    IF a.k = "nan" \/ b.k = "nan" THEN FALSE
    ELSE IF a.k = "inf" THEN a.m > 0 /\ b # a
    ELSE IF b.k = "inf" THEN b.m < 0
    ELSE LET E == Max(a.e, b.e) IN Scaled(a, E) > Scaled(b, E)

\* The literal 0.01 of the tolerance comparisons.
Tolerance == Normalize(1, 2)

\* The length of the longest prefix of s made of digits
RECURSIVE DigitRun(_)
DigitRun(s) ==
    IF s # <<>> /\ Head(s) \in Digits THEN 1 + DigitRun(Tail(s)) ELSE 0

\* The value of a sequence of digits
RECURSIVE DigitsToInt(_)
DigitsToInt(ds) ==
    IF ds = <<>> THEN 0
    ELSE 10 * DigitsToInt(SubSeq(ds, 1, Len(ds) - 1)) + DigitVal(ds[Len(ds)])

Drop(s, n) == SubSeq(s, n + 1, Len(s))

\* parseFloat reads the longest prefix that is a decimal literal: a sign,
\* then Infinity or digits, a fraction and an exponent. The operators below
\* are its stages, each handing what it has read to the next.

\* s starts with a sign
IsSigned(s) == s # <<>> /\ Head(s) \in {"+", "-"}

SignOf(s) == IF IsSigned(s) /\ Head(s) = "-" THEN 0 - 1 ELSE 1

Unsigned(s) == IF IsSigned(s) THEN Tail(s) ELSE s

\* The number of digits of the fraction that s starts with, if any
FractionRun(s) ==
    IF s # <<>> /\ Head(s) = "." THEN DigitRun(Tail(s)) ELSE 0

\* s past its fraction of nf digits
AfterFraction(s, nf) ==
    IF s # <<>> /\ Head(s) = "." THEN Drop(s, 1 + nf) ELSE s

\* The value of the digits that s starts with, signed; 0 when there are none
ExponentDigits(s, esign) == esign * DigitsToInt(SubSeq(s, 1, DigitRun(s)))

\* The exponent that s starts with; 0 when it starts with none
ExponentPart(s) ==
    IF s # <<>> /\ Head(s) \in {"e", "E"}
    THEN ExponentDigits(Unsigned(Tail(s)), SignOf(Tail(s)))
    ELSE 0

\* The number of the digits read (nf of them after the point) and the exponent
DecimalValue(sign, digits, nf, exp) ==
    IF digits = <<>> THEN NaN
    ELSE Normalize(sign * DigitsToInt(digits), nf - exp)

\* s is what follows the integer digits, nf the length of its fraction
ParseFraction(sign, intDigits, s, nf) ==
    DecimalValue(sign, intDigits \o SubSeq(s, 2, 1 + nf), nf,
                 ExponentPart(AfterFraction(s, nf)))

\* s starts with ni integer digits
ParseInteger(sign, s, ni) ==
    ParseFraction(sign, SubSeq(s, 1, ni), Drop(s, ni), FractionRun(Drop(s, ni)))

ParseUnsigned(sign, s) ==
    IF s # <<>> /\ Head(s) = "Infinity" THEN Infinity(sign)
    ELSE ParseInteger(sign, s, DigitRun(s))

ParseSigned(s) == ParseUnsigned(SignOf(s), Unsigned(s))

\* parseFloat: leading white space is skipped, then the longest prefix that
\* is a decimal literal (sign, Infinity, digits, fraction, exponent) is
\* converted; NaN when there is none.
parseFloat(str) == ParseSigned(TrimStart(str))

\* value.replace(/[^\d.-]/g, "")
StripNonNumeric(s) == SelectSeq(s, LAMBDA c : c \in Digits \cup {".", "-"})

\* The decimal digits of a natural number
RECURSIVE IntToDigits(_)
IntToDigits(n) ==
    IF n < 10 THEN <<DigitChar(n)>>
    ELSE IntToDigits(n \div 10) \o <<DigitChar(n % 10)>>

Zeros(n) == [i \in 1..n |-> "0"]

\* Number.prototype.toString (String(x), `${x}`), for the magnitudes that
\* print without an exponent (1e-6 <= |x| < 1e21).
NumToString(x) ==
    IF x.k = "nan" THEN W("NaN")
    ELSE IF x.k = "inf"
    THEN (IF x.m < 0 THEN <<"-">> ELSE <<>>) \o W("Infinity")
    ELSE LET a == IF x.m < 0 THEN 0 - x.m ELSE x.m
             ds == IntToDigits(a)
             body == IF x.e <= 0 THEN ds \o Zeros(0 - x.e)
                     ELSE LET p == Zeros(x.e + 1 - Len(ds)) \o ds
                          IN SubSeq(p, 1, Len(p) - x.e) \o <<".">>
                               \o SubSeq(p, Len(p) - x.e + 1, Len(p))
         IN (IF x.m < 0 THEN <<"-">> ELSE <<>>) \o body

\* Number.prototype.toFixed(2): the nearest multiple of 0.01, a tie going
\* away from zero.
toFixed2(x) ==
    IF x.k # "num" THEN NumToString(x)
    ELSE LET a == IF x.m < 0 THEN 0 - x.m ELSE x.m
             cents == IF x.e <= 2 THEN a * Pow10(2 - x.e)
                      ELSE (a + 5 * Pow10(x.e - 3)) \div Pow10(x.e - 2)
             ds == IntToDigits(cents)
             p == Zeros(3 - Len(ds)) \o ds
         IN (IF x.m < 0 THEN <<"-">> ELSE <<>>)
              \o SubSeq(p, 1, Len(p) - 2) \o <<".">>
              \o SubSeq(p, Len(p) - 1, Len(p))

\* The UTF-16 code unit of a character that a printed number can hold.
CodeUnit(c) ==
    CASE c = "-" -> 45 [] c = "." -> 46 [] c \in Digits -> 48 + DigitVal(c)
      [] OTHER -> 65

\* a < b in the order of the default Array.prototype.sort comparator:
\* the strings compared code unit by code unit.
RECURSIVE StrLess(_, _)
StrLess(a, b) ==
    IF b = <<>> THEN FALSE
    ELSE IF a = <<>> THEN TRUE
    ELSE IF Head(a) = Head(b) THEN StrLess(Tail(a), Tail(b))
    ELSE CodeUnit(Head(a)) < CodeUnit(Head(b))

\* Array.from(set).sort(): with no comparator the numbers are ordered by
\* their printed strings.
RECURSIVE SortDefault(_)
SortDefault(S) ==
    IF S = {} THEN <<>>
    ELSE LET x == CHOOSE y \in S :
                     \A z \in S \ {y} : StrLess(NumToString(y), NumToString(z))
         IN <<x>> \o SortDefault(S \ {x})

\* validateFileFormat without the test of the first line
validateFileFormatNoPipeTest(text) ==
    IF Len(NonBlankLines(text)) = 0
    THEN [isValid |-> FALSE, error |-> W("File is empty")]
    ELSE IF parseFile(text).threw
    THEN [isValid |-> FALSE, error |-> W(parseFile(text).error)]
    ELSE IF Len(parseFile(text).rows) = 0
    THEN [isValid |-> FALSE,
          error |-> W("No data rows found in file (only headers detected)")]
    ELSE [isValid |-> TRUE]

\* LedesFileHandler.validateFileFormat: the catch turns whatever parseFile
\* throws into an invalid result with the error's message.
validateFileFormat(text) ==
    IF Len(NonBlankLines(text)) = 0
    THEN [isValid |-> FALSE, error |-> W("File is empty")]
    ELSE IF ~Includes(NonBlankLines(text)[1], "|")
    THEN [isValid |-> FALSE,
          error |-> W("File does not appear to be pipe-delimited")]
    ELSE IF parseFile(text).threw
    THEN [isValid |-> FALSE, error |-> W(parseFile(text).error)]
    ELSE IF Len(parseFile(text).rows) = 0
    THEN [isValid |-> FALSE,
          error |-> W("No data rows found in file (only headers detected)")]
    ELSE [isValid |-> TRUE]

\* ------------------------------------------------------------------------
\* LedesValidator: the field rules
\* ------------------------------------------------------------------------

LowerLetters ==
    <<"a", "b", "c", "d", "e", "f", "g", "h", "i", "j", "k", "l", "m",
      "n", "o", "p", "q", "r", "s", "t", "u", "v", "w", "x", "y", "z">>

UpperLetters ==
    <<"A", "B", "C", "D", "E", "F", "G", "H", "I", "J", "K", "L", "M",
      "N", "O", "P", "Q", "R", "S", "T", "U", "V", "W", "X", "Y", "Z">>

\* The words made of letters only; every other word holds an underscore or
\* a digit as well.
AlphaWords ==
    {"constructor", "toString", "toLocaleString", "valueOf",
     "hasOwnProperty", "isPrototypeOf", "propertyIsEnumerable",
     "Infinity", "NaN"}

\* [A-Z] under the i flag
IsAlpha(c) == c \in Range(LowerLetters) \cup Range(UpperLetters) \cup AlphaWords

\* String.prototype.toUpperCase (words are kept: none is compared in upper case)
toUpperCase(s) ==
    [i \in 1..Len(s) |->
        IF s[i] \in Range(LowerLetters)
        THEN UpperLetters[IndexOf(LowerLetters, s[i])]
        ELSE s[i]]

Pass == [threw |-> FALSE, valid |-> TRUE, error |-> <<>>]

Fail(msg) == [threw |-> FALSE, valid |-> FALSE, error |-> W(msg)]

\* A TypeError leaves the call
Throws == [threw |-> TRUE, valid |-> FALSE, error |-> W("TypeError")]

\* Days from 1970-01-01 to the civil date y-m-d (proleptic Gregorian), the
\* day number behind a Date's time value.
DaysFromCivil(y0, m, d) ==
    LET y == IF m <= 2 THEN y0 - 1 ELSE y0
        era == y \div 400
        yoe == y - era * 400
        doy == (153 * (IF m > 2 THEN m - 3 ELSE m + 9) + 2) \div 5 + d - 1
        doe == yoe * 365 + yoe \div 4 - yoe \div 100 + doy
    IN era * 146097 + doe - 719468

\* The civil date of a day number: getFullYear, getMonth + 1, getDate.
CivilFromDays(z0) ==
    LET z == z0 + 719468
        era == z \div 146097
        doe == z - era * 146097
        yoe == (doe - doe \div 1460 + doe \div 36524 - doe \div 146096) \div 365
        doy == doe - (365 * yoe + yoe \div 4 - yoe \div 100)
        mp == (5 * doy + 2) \div 153
        d == doy - (153 * mp + 2) \div 5 + 1
        m == IF mp < 10 THEN mp + 3 ELSE mp - 9
    IN [year |-> yoe + era * 400 + (IF m <= 2 THEN 1 ELSE 0),
        month |-> m, day |-> d]

\* new Date(year, monthIndex, day), as its day number: a year 0..99 means
\* 1900 + year, and a month or day out of range carries over.
NewDate(year, monthIndex, day) ==
    LET yr == IF year >= 0 /\ year <= 99 THEN 1900 + year ELSE year
        ym == yr + monthIndex \div 12
        mn == monthIndex % 12
    IN DaysFromCivil(ym, mn + 1, 1) + day - 1

\* LedesValidator.parseDate, as the day number of the Date
parseDate(dateStr) ==
    NewDate(DigitsToInt(SubSeq(dateStr, 1, 4)),
            DigitsToInt(SubSeq(dateStr, 5, 6)) - 1,
            DigitsToInt(SubSeq(dateStr, 7, 8)))

validateDate(v) ==
    IF ~(Len(v) = 8 /\ \A i \in 1..8 : v[i] \in Digits)
    THEN Fail("Date must be in YYYYMMDD format")
    ELSE LET year == DigitsToInt(SubSeq(v, 1, 4))
             month == DigitsToInt(SubSeq(v, 5, 6))
             day == DigitsToInt(SubSeq(v, 7, 8))
             date == CivilFromDays(NewDate(year, month - 1, day))
         IN IF date.year # year \/ date.month - 1 # month - 1 \/ date.day # day
            THEN Fail("Invalid date")
            ELSE Pass

validateDecimal(v) ==
    IF isNaN(parseFloat(v)) THEN Fail("Invalid decimal number") ELSE Pass

\* parseInt(value): leading white space, a sign, then the decimal digits
\* (a "0x" prefix reads hexadecimal digits instead; whatever they give, the
\* printed number never holds the prefix again).
parseInt(str) ==
    LET s0 == TrimStart(str)
        signed == s0 # <<>> /\ Head(s0) \in {"+", "-"}
        sign == IF signed /\ Head(s0) = "-" THEN 0 - 1 ELSE 1
        s1 == IF signed THEN Tail(s0) ELSE s0
        n == DigitRun(s1)
    IN IF n = 0 THEN NaN ELSE Num(sign * DigitsToInt(SubSeq(s1, 1, n)))

validateInteger(v) ==
    LET intValue == parseInt(v)
    IN IF isNaN(intValue) \/ NumToString(intValue) # v
       THEN Fail("Must be a whole number")
       ELSE Pass

validateText(v) ==
    IF Includes(v, "|") THEN Fail("Pipe character (|) not allowed")
    ELSE IF StrLen(v) > 1000 THEN Fail("Text too long (maximum 1000 characters)")
    ELSE Pass

validateRequiredDate(v) ==
    IF Trim(v) = <<>> THEN Fail("Date is required") ELSE validateDate(v)

validateRequiredDecimal(v) ==
    IF Trim(v) = <<>> THEN Fail("Value is required") ELSE validateDecimal(v)

validateRequiredText(v) ==
    IF Trim(v) = <<>> THEN Fail("Field is required") ELSE validateText(v)

validateLineItemType(v) ==
    IF toUpperCase(v) \notin {<<"F">>, <<"E">>, <<"I", "F">>, <<"I", "E">>}
    THEN Fail("Line item type must be F, E, IF, or IE")
    ELSE Pass

\* /^[A-Z]{3}$/i
validateCurrency(v) ==
    IF StrLen(v) = 3 /\ \A i \in 1..Len(v) : IsAlpha(v[i])
    THEN Pass
    ELSE Fail("Currency must be a 3-letter code (e.g., USD, EUR, GBP)")

\* /^[A-Z0-9\-\s]{3,10}$/i
validatePostcode(v) ==
    IF /\ StrLen(v) >= 3 /\ StrLen(v) <= 10
       /\ \A i \in 1..Len(v) :
             IsAlpha(v[i]) \/ v[i] \in Digits \cup {"-"} \cup WhiteSpace
    THEN Pass
    ELSE Fail("Invalid postcode format")

validStateCodes ==
    {<<"A", "L">>, <<"A", "K">>, <<"A", "Z">>, <<"A", "R">>, <<"C", "A">>,
     <<"C", "O">>, <<"C", "T">>, <<"D", "E">>, <<"F", "L">>, <<"G", "A">>,
     <<"H", "I">>, <<"I", "D">>, <<"I", "L">>, <<"I", "N">>, <<"I", "A">>,
     <<"K", "S">>, <<"K", "Y">>, <<"L", "A">>, <<"M", "E">>, <<"M", "D">>,
     <<"M", "A">>, <<"M", "I">>, <<"M", "N">>, <<"M", "S">>, <<"M", "O">>,
     <<"M", "T">>, <<"N", "E">>, <<"N", "V">>, <<"N", "H">>, <<"N", "J">>,
     <<"N", "M">>, <<"N", "Y">>, <<"N", "C">>, <<"N", "D">>, <<"O", "H">>,
     <<"O", "K">>, <<"O", "R">>, <<"P", "A">>, <<"R", "I">>, <<"S", "C">>,
     <<"S", "D">>, <<"T", "N">>, <<"T", "X">>, <<"U", "T">>, <<"V", "T">>,
     <<"V", "A">>, <<"W", "A">>, <<"W", "V">>, <<"W", "I">>, <<"W", "Y">>,
     <<"D", "C">>}

\* a state code, or /^[A-Z\s]{2,50}$/i
validateStateOrRegion(v) ==
    IF toUpperCase(v) \in validStateCodes THEN Pass
    ELSE IF /\ StrLen(v) >= 2 /\ StrLen(v) <= 50
            /\ \A i \in 1..Len(v) : IsAlpha(v[i]) \/ v[i] \in WhiteSpace
    THEN Pass
    ELSE Fail("Invalid state or region format")

\* The own properties of the fieldValidators table: field name -> rule
fieldValidators ==
    [n \in {"INVOICE_DATE", "BILLING_START_DATE", "BILLING_END_DATE"} |-> "date"]
    @@ [n \in {"LINE_ITEM_DATE"} |-> "requiredDate"]
    @@ [n \in {"LINE_ITEM_TAX_RATE", "LINE_ITEM_NUMBER_OF_UNITS"} |-> "decimal"]
    @@ [n \in {"LINE_ITEM_NUMBER"} |-> "integer"]
    @@ [n \in {"LINE_ITEM_TYPE"} |-> "lineItemType"]
    @@ [n \in {"LINE_ITEM_TOTAL", "INVOICE_NET_TOTAL"} |-> "requiredDecimal"]
    @@ [n \in {"LAW_FIRM_POSTCODE", "CLIENT_POSTCODE"} |-> "postcode"]
    @@ [n \in {"LAW_FIRM_STATEorREGION", "CLIENT_STATEorREGION"} |-> "stateOrRegion"]
    @@ [n \in {"LAW_FIRM_ID", "CLIENT_TAX_ID"} |-> "requiredText"]
    @@ [n \in {"INVOICE_CURRENCY"} |-> "currency"]

\* this.fieldValidators[fieldName](value) for an own property
ApplyRule(rule, v) ==
    CASE rule = "date" -> validateDate(v)
      [] rule = "requiredDate" -> validateRequiredDate(v)
      [] rule = "decimal" -> validateDecimal(v)
      [] rule = "requiredDecimal" -> validateRequiredDecimal(v)
      [] rule = "integer" -> validateInteger(v)
      [] rule = "lineItemType" -> validateLineItemType(v)
      [] rule = "postcode" -> validatePostcode(v)
      [] rule = "stateOrRegion" -> validateStateOrRegion(v)
      [] rule = "requiredText" -> validateRequiredText(v)
      [] rule = "currency" -> validateCurrency(v)

\* this.fieldValidators[fieldName](value) for a member inherited from
\* Object.prototype, destructured as [isValid, errorMessage]: constructor
\* gives a String object and toString / toLocaleString a string, whose first
\* character is a truthy isValid; the other members give a boolean, an
\* object or undefined, or are not callable: a TypeError.
ApplyInherited(name, v) ==
    IF name \in {W("constructor"), W("toString"), W("toLocaleString")}
    THEN Pass
    ELSE Throws

\* LedesValidator.validateField
validateField(name, v) ==
    IF v = <<>> \/ Trim(v) = <<>> THEN Pass
    ELSE IF Len(name) = 1 /\ name[1] \in DOMAIN fieldValidators
    THEN ApplyRule(fieldValidators[name[1]], v)
    ELSE IF name \in ObjectPrototypeNames
    THEN ApplyInherited(name, v)
    ELSE validateText(v)

\* ------------------------------------------------------------------------
\* LedesValidator: the row rules
\* ------------------------------------------------------------------------

\* Array.prototype.flat over a sequence of sequences
RECURSIVE Concat(_)
Concat(ss) == IF ss = <<>> THEN <<>> ELSE Head(ss) \o Concat(Tail(ss))

\* rowData[index] || ""
CellAt(rowData, i) == IF i >= 1 /\ i <= Len(rowData) THEN rowData[i] ELSE <<>>

\* rowDict[field] || "" after headers.forEach((header, index) =>
\* rowDict[header] = rowData[index] || ""): the last column named field.
DictGet(rowData, hdrs, field) == CellAt(rowData, LastIndexOf(hdrs, field))

\* A ValidationError; the caller stamps its row.
ValidationError(field, column, v, msg) ==
    [field |-> field, column |-> column, value |-> v, error |-> msg, row |-> 0]

\* LedesValidator.validateRow
validateRow(rowData, hdrs) ==
    LET n == Min(Len(hdrs), Len(rowData))
        Res(i) == validateField(hdrs[i], rowData[i])
        bad == SelectSeq([i \in 1..n |-> i], LAMBDA i : ~Res(i).valid)
    IN IF \E i \in 1..n : Res(i).threw
       THEN [threw |-> TRUE, errors |-> <<>>]
       ELSE [threw |-> FALSE,
             errors |-> [k \in 1..Len(bad) |->
                 ValidationError(hdrs[bad[k]], bad[k], rowData[bad[k]],
                                 Res(bad[k]).error)]]

\* OrZero without the fallback: an unparsable number stays NaN
OrZeroKeepsNaN(x) == x

\* parseFloat(x) || 0
OrZero(x) == IF isNaN(x) THEN Num(0) ELSE x

\* An error of validateCrossFieldRow: column = headers.indexOf(field) + 1
CrossError(field, hdrs, v, msg) ==
    ValidationError(W(field), IndexOf(hdrs, W(field)), v, msg)

\* BillingRangeErrors that also fires when the two dates are equal
BillingRangeErrorsOnEqual(rowData, hdrs) ==
    LET billingStart == DictGet(rowData, hdrs, W("BILLING_START_DATE"))
        billingEnd == DictGet(rowData, hdrs, W("BILLING_END_DATE"))
    IN IF /\ billingStart # <<>> /\ billingEnd # <<>>
          /\ validateDate(billingStart).valid /\ validateDate(billingEnd).valid
          /\ parseDate(billingEnd) <= parseDate(billingStart)
       THEN <<CrossError("BILLING_START_DATE", hdrs, billingStart,
                  W("Billing start date must be on or before billing end date")),
              CrossError("BILLING_END_DATE", hdrs, billingEnd,
                  W("Billing end date must be on or after billing start date"))>>
       ELSE <<>>

\* The billing date range rule
BillingRangeErrors(rowData, hdrs) ==
    LET billingStart == DictGet(rowData, hdrs, W("BILLING_START_DATE"))
        billingEnd == DictGet(rowData, hdrs, W("BILLING_END_DATE"))
    IN IF /\ billingStart # <<>> /\ billingEnd # <<>>
          /\ validateDate(billingStart).valid /\ validateDate(billingEnd).valid
          /\ parseDate(billingEnd) < parseDate(billingStart)
       THEN <<CrossError("BILLING_START_DATE", hdrs, billingStart,
                  W("Billing start date must be on or before billing end date")),
              CrossError("BILLING_END_DATE", hdrs, billingEnd,
                  W("Billing end date must be on or after billing start date"))>>
       ELSE <<>>

isAdjustmentType(lineItemType) ==
    toUpperCase(lineItemType) \in {<<"I", "F">>, <<"I", "E">>}

\* The units rule
UnitsErrors(rowData, hdrs) ==
    LET lineItemType == DictGet(rowData, hdrs, W("LINE_ITEM_TYPE"))
        unitsField == DictGet(rowData, hdrs, W("LINE_ITEM_NUMBER_OF_UNITS"))
        unitsValue == parseFloat(unitsField)
    IN IF /\ lineItemType # <<>> /\ unitsField # <<>>
          /\ ~isAdjustmentType(lineItemType)
          /\ (unitsField = <<>> \/ Trim(unitsField) = <<>> \/ unitsValue = Num(0))
       THEN <<CrossError("LINE_ITEM_NUMBER_OF_UNITS", hdrs, unitsField,
                W("Units cannot be 0 or null for non-adjustment line items (F, E)"))>>
       ELSE <<>>

\* The unit cost rule
UnitCostErrors(rowData, hdrs) ==
    LET lineItemType == DictGet(rowData, hdrs, W("LINE_ITEM_TYPE"))
        unitCostField == DictGet(rowData, hdrs, W("LINE_ITEM_UNIT_COST"))
        unitCostValue == parseFloat(StripNonNumeric(unitCostField))
    IN IF /\ lineItemType # <<>> /\ unitCostField # <<>>
          /\ ~isAdjustmentType(lineItemType)
          /\ (unitCostField = <<>> \/ Trim(unitCostField) = <<>>
                \/ unitCostValue = Num(0))
       THEN <<CrossError("LINE_ITEM_UNIT_COST", hdrs, unitCostField,
                W("Unit cost cannot be 0 or null for non-adjustment line items (F, E)"))>>
       ELSE <<>>

\* One required field of a line item type
RequiredError(rowData, hdrs, field, msg) ==
    LET v == DictGet(rowData, hdrs, W(field))
    IN IF v = <<>> \/ Trim(v) = <<>>
       THEN <<CrossError(field, hdrs, v, W(msg))>>
       ELSE <<>>

\* TypeRequiredErrors with the type compared as written, in upper case only
TypeRequiredErrorsCaseSensitive(rowData, hdrs) ==
    LET type == DictGet(rowData, hdrs, W("LINE_ITEM_TYPE"))
    IN IF type = <<"F">>
       THEN RequiredError(rowData, hdrs, "LINE_ITEM_TASK_CODE",
                "Task code is required for fee line items (F)")
            \o RequiredError(rowData, hdrs, "TIMEKEEPER_ID",
                "Timekeeper ID is required for fee line items (F)")
            \o RequiredError(rowData, hdrs, "LINE_ITEM_DESCRIPTION",
                "Description is required for fee line items (F)")
       ELSE IF type = <<"E">>
       THEN RequiredError(rowData, hdrs, "LINE_ITEM_EXPENSE_CODE",
                "Expense code is required for expense line items (E)")
       ELSE <<>>

\* The fields required by the line item type
TypeRequiredErrors(rowData, hdrs) ==
    LET lineItemType == DictGet(rowData, hdrs, W("LINE_ITEM_TYPE"))
        type == toUpperCase(lineItemType)
    IN IF lineItemType = <<>> THEN <<>>
       ELSE IF type = <<"F">>
       THEN RequiredError(rowData, hdrs, "LINE_ITEM_TASK_CODE",
                "Task code is required for fee line items (F)")
            \o RequiredError(rowData, hdrs, "TIMEKEEPER_ID",
                "Timekeeper ID is required for fee line items (F)")
            \o RequiredError(rowData, hdrs, "LINE_ITEM_DESCRIPTION",
                "Description is required for fee line items (F)")
       ELSE IF type = <<"E">>
       THEN RequiredError(rowData, hdrs, "LINE_ITEM_EXPENSE_CODE",
                "Expense code is required for expense line items (E)")
       ELSE <<>>

\* A line total rule that reports on all five fields, empty or not,
\* whenever units, unit cost and line total are given
LineTotalErrorsOnAllFields(rowData, hdrs) ==
    IF /\ DictGet(rowData, hdrs, W("LINE_ITEM_NUMBER_OF_UNITS")) # <<>>
       /\ DictGet(rowData, hdrs, W("LINE_ITEM_UNIT_COST")) # <<>>
       /\ DictGet(rowData, hdrs, W("LINE_ITEM_TOTAL")) # <<>>
    THEN [i \in 1..5 |->
            CrossError(<<"LINE_ITEM_NUMBER_OF_UNITS", "LINE_ITEM_UNIT_COST",
                         "LINE_ITEM_ADJUSTMENT_AMOUNT", "LINE_ITEM_TAX_TOTAL",
                         "LINE_ITEM_TOTAL">>[i], hdrs,
                       DictGet(rowData, hdrs, W("LINE_ITEM_TOTAL")),
                       W("Line item calculation error: "))]
    ELSE <<>>

\* The line item total rule
LineTotalErrors(rowData, hdrs) ==
    LET units == DictGet(rowData, hdrs, W("LINE_ITEM_NUMBER_OF_UNITS"))
        unitCost == DictGet(rowData, hdrs, W("LINE_ITEM_UNIT_COST"))
        adjustment == DictGet(rowData, hdrs, W("LINE_ITEM_ADJUSTMENT_AMOUNT"))
        tax == DictGet(rowData, hdrs, W("LINE_ITEM_TAX_TOTAL"))
        lineTotal == DictGet(rowData, hdrs, W("LINE_ITEM_TOTAL"))
        unitsDecimal == OrZero(parseFloat(units))
        unitCostDecimal == OrZero(parseFloat(StripNonNumeric(unitCost)))
        adjustmentDecimal == OrZero(parseFloat(StripNonNumeric(adjustment)))
        taxDecimal == OrZero(parseFloat(StripNonNumeric(tax)))
        lineTotalDecimal == OrZero(parseFloat(StripNonNumeric(lineTotal)))
        calculatedTotal ==
            NumAdd(NumAdd(NumMul(unitsDecimal, unitCostDecimal),
                          adjustmentDecimal), taxDecimal)
        errorMessage ==
            W("Line item calculation error: ") \o NumToString(unitsDecimal)
              \o W(" x ") \o NumToString(unitCostDecimal)
              \o W(" + ") \o NumToString(adjustmentDecimal)
              \o W(" + ") \o NumToString(taxDecimal)
              \o W(" should equal ") \o toFixed2(calculatedTotal)
              \o W(", but total shows ") \o NumToString(lineTotalDecimal)
    IN IF /\ units # <<>> /\ unitCost # <<>> /\ lineTotal # <<>>
          /\ NumGt(NumAbs(NumSub(calculatedTotal, lineTotalDecimal)), Tolerance)
       THEN <<CrossError("LINE_ITEM_NUMBER_OF_UNITS", hdrs, units, errorMessage),
              CrossError("LINE_ITEM_UNIT_COST", hdrs, unitCost, errorMessage)>>
            \o (IF adjustment # <<>>
                THEN <<CrossError("LINE_ITEM_ADJUSTMENT_AMOUNT", hdrs,
                                  adjustment, errorMessage)>>
                ELSE <<>>)
            \o (IF tax # <<>>
                THEN <<CrossError("LINE_ITEM_TAX_TOTAL", hdrs, tax, errorMessage)>>
                ELSE <<>>)
            \o <<CrossError("LINE_ITEM_TOTAL", hdrs, lineTotal, errorMessage)>>
       ELSE <<>>

\* LedesValidator.validateCrossFieldRow
validateCrossFieldRow(rowData, hdrs) ==
    BillingRangeErrors(rowData, hdrs)
      \o UnitsErrors(rowData, hdrs)
      \o UnitCostErrors(rowData, hdrs)
      \o TypeRequiredErrors(rowData, hdrs)
      \o LineTotalErrors(rowData, hdrs)

\* ------------------------------------------------------------------------
\* LedesValidator: the dataset rules
\* ------------------------------------------------------------------------

\* A property name that is an array index ("0", "7", "42": a canonical
\* decimal below 2^32 - 1).  Object.entries lists such keys first, in
\* ascending numeric order, and the other keys after them in insertion order.
IsArrayIndex(key) ==
    /\ Len(key) >= 1
    /\ \A i \in 1..Len(key) : key[i] \in Digits
    /\ (Len(key) = 1 \/ key[1] # "0")
    /\ \/ Len(key) < 10
       \/ /\ Len(key) = 10
          /\ ~StrLess(<<"4", "2", "9", "4", "9", "6", "7", "2", "9", "4">>, key)

\* a < b for two array index keys
IndexLess(a, b) == Len(a) < Len(b) \/ (Len(a) = Len(b) /\ StrLess(a, b))

RECURSIVE SortIndexKeys(_)
SortIndexKeys(S) ==
    IF S = {} THEN <<>>
    ELSE LET x == CHOOSE y \in S : \A z \in S \ {y} : IndexLess(y, z)
         IN <<x>> \o SortIndexKeys(S \ {x})

\* The keys of a sequence of keys, each once, in order of first occurrence
RECURSIVE FirstSeen(_)
FirstSeen(ks) ==
    IF ks = <<>> THEN <<>>
    ELSE LET init == FirstSeen(SubSeq(ks, 1, Len(ks) - 1))
             last == ks[Len(ks)]
         IN IF last \in Range(init) THEN init ELSE Append(init, last)

\* The key order of Object.entries for an object whose keys were inserted
\* in the order ks
EntriesOrder(ks) ==
    LET seen == FirstSeen(ks)
    IN SortIndexKeys({k \in Range(seen) : IsArrayIndex(k)})
         \o SelectSeq(seen, LAMBDA k : ~IsArrayIndex(k))

invoiceIdentifierFields ==
    <<W("INVOICE_DATE"), W("LAW_FIRM_NAME"), W("CLIENT_NAME"), W("INVOICE_NUMBER")>>

availableIdentifiers(hdrs) ==
    SelectSeq(invoiceIdentifierFields, LAMBDA field : field \in Range(hdrs))

\* availableIdentifiers.map((field) => rowDict[field] || "").join("|")
invoiceKey(rowData, hdrs) ==
    Join(Map(availableIdentifiers(hdrs), LAMBDA field : DictGet(rowData, hdrs, field)),
         <<"|">>)

\* The identifier string of an invoice error, rebuilt from the key
identifierStr(key, hdrs) ==
    LET identifierParts == Split(key, "|")
        avail == availableIdentifiers(hdrs)
        parts == [i \in 1..Len(avail) |-> avail[i] \o <<"=">> \o identifierParts[i]]
    IN Join(SelectSeq(parts, LAMBDA part : ~EndsWith(part, <<"=">>)), <<",", " ">>)

\* RowsOfKey with the latest row first
RowsOfKeyLatestFirst(keys, key) ==
    SelectSeq([i \in 1..Len(keys) |-> Len(keys) + 1 - i],
              LAMBDA i : keys[i] = key)

\* The 1-based numbers of the rows whose key is key, ascending
RowsOfKey(keys, key) ==
    SelectSeq([i \in 1..Len(keys) |-> i], LAMBDA i : keys[i] = key)

DatasetValidationError(type, identifier, msg, rows) ==
    [type |-> type, invoice_identifier |-> identifier, error |-> msg,
     affected_rows |-> rows]

NoErrors == [threw |-> FALSE, errors |-> <<>>]

\* invoices[key].push(...) / lineItemNumbers[key].push(...) on a plain
\* object: for a key inherited from Object.prototype the lookup is truthy,
\* no array is stored, and push is not a function: a TypeError.
GroupingThrows(keys) == \E i \in 1..Len(keys) : keys[i] \in ObjectPrototypeNames

\* The distinct numeric totals of the rows of one invoice
InvoiceTotalsSet(ds, hdrs, rows) ==
    {x \in {parseFloat(StripNonNumeric(DictGet(ds[rows[i]], hdrs, W("INVOICE_TOTAL")))) :
               i \in {j \in 1..Len(rows) :
                         DictGet(ds[rows[j]], hdrs, W("INVOICE_TOTAL")) # <<>>}} :
        ~isNaN(x)}

\* ConsistencyOfInvoice without the early return for a single row and with
\* "at least one total" in place of "more than one"
ConsistencyOfInvoiceAnyTotal(ds, hdrs, key, rows) ==
    LET invoiceTotals == InvoiceTotalsSet(ds, hdrs, rows)
    IN IF Cardinality(invoiceTotals) >= 1
       THEN <<DatasetValidationError("invoice_consistency",
                 identifierStr(key, hdrs),
                 W("Invoice has inconsistent totals: ")
                   \o Join(Map(SortDefault(invoiceTotals), NumToString),
                           <<",", " ">>),
                 rows)>>
       ELSE <<>>

\* The callback of Object.entries(invoices).forEach in
\* validateInvoiceTotalsConsistency: the errors of one invoice
ConsistencyOfInvoice(ds, hdrs, key, rows) ==
    IF Len(rows) <= 1 THEN <<>>
    ELSE LET invoiceTotals == InvoiceTotalsSet(ds, hdrs, rows)
         IN IF Cardinality(invoiceTotals) > 1
            THEN <<DatasetValidationError("invoice_consistency",
                      identifierStr(key, hdrs),
                      W("Invoice has inconsistent totals: ")
                        \o Join(Map(SortDefault(invoiceTotals), NumToString),
                                <<",", " ">>),
                      rows)>>
            ELSE <<>>

\* LedesValidator.validateInvoiceTotalsConsistency
validateInvoiceTotalsConsistency(ds, hdrs) ==
    LET keys == [i \in 1..Len(ds) |-> invoiceKey(ds[i], hdrs)]
        order == EntriesOrder(keys)
    IN IF W("INVOICE_TOTAL") \notin Range(hdrs) THEN NoErrors
       ELSE IF availableIdentifiers(hdrs) = <<>> THEN NoErrors
       ELSE IF GroupingThrows(keys) THEN [threw |-> TRUE, errors |-> <<>>]
       ELSE [threw |-> FALSE,
             errors |-> Concat([g \in 1..Len(order) |->
                 ConsistencyOfInvoice(ds, hdrs, order[g], RowsOfKey(keys, order[g]))])]

\* LedesValidator.validateUniqueLineItemNumbers
validateUniqueLineItemNumbers(ds, hdrs) ==
    LET lineItemNumberIndex == IndexOf(hdrs, W("LINE_ITEM_NUMBER"))
        numbers == [i \in 1..Len(ds) |-> CellAt(ds[i], lineItemNumberIndex)]
        used == SelectSeq(numbers, LAMBDA n : n # <<>> /\ Trim(n) # <<>>)
        order == EntriesOrder(used)
        Of(n) == IF Len(RowsOfKey(numbers, n)) > 1
                 THEN <<DatasetValidationError("line_item_uniqueness",
                           W("LINE_ITEM_NUMBER=") \o n,
                           W("Line item number ") \o n \o W(" is not unique"),
                           RowsOfKey(numbers, n))>>
                 ELSE <<>>
    IN IF lineItemNumberIndex = 0 THEN NoErrors
       ELSE IF GroupingThrows(used) THEN [threw |-> TRUE, errors |-> <<>>]
       ELSE [threw |-> FALSE,
             errors |-> Concat([g \in 1..Len(order) |-> Of(order[g])])]

\* The parsable LINE_ITEM_TOTAL values of the rows of one invoice, in row order
LineItemValues(ds, hdrs, rows) ==
    LET Total(i) == DictGet(ds[rows[i]], hdrs, W("LINE_ITEM_TOTAL"))
        Value(i) == parseFloat(StripNonNumeric(Total(i)))
        valid == SelectSeq([i \in 1..Len(rows) |-> i],
                     LAMBDA i : Total(i) # <<>> /\ Trim(Total(i)) # <<>>
                                  /\ ~isNaN(Value(i)))
    IN [k \in 1..Len(valid) |-> Value(valid[k])]

RECURSIVE NumSum(_)
NumSum(xs) == IF xs = <<>> THEN Num(0) ELSE NumAdd(Head(xs), NumSum(Tail(xs)))

\* The callback of Object.entries(invoices).forEach in
\* validateInvoiceNetTotalCalculation: the errors of one invoice
NetTotalOfInvoice(ds, hdrs, key, rows) ==
    LET expectedNetTotal == DictGet(ds[rows[1]], hdrs, W("INVOICE_NET_TOTAL"))
        expectedNetTotalValue == parseFloat(StripNonNumeric(expectedNetTotal))
        values == LineItemValues(ds, hdrs, rows)
        actualSum == NumSum(values)
        validLineItems == Len(values)
    IN IF Len(rows) = 0 THEN <<>>
       ELSE IF expectedNetTotal = <<>> \/ Trim(expectedNetTotal) = <<>> THEN <<>>
       ELSE IF /\ validLineItems > 0
               /\ NumGt(NumAbs(NumSub(actualSum, expectedNetTotalValue)), Tolerance)
       THEN <<DatasetValidationError("invoice_net_total_calculation",
                 identifierStr(key, hdrs),
                 W("Invoice net total (") \o NumToString(expectedNetTotalValue)
                   \o W(") does not equal sum of line item totals (")
                   \o toFixed2(actualSum) \o W(")"),
                 rows)>>
       ELSE <<>>

\* LedesValidator.validateInvoiceNetTotalCalculation
validateInvoiceNetTotalCalculation(ds, hdrs) ==
    LET keys == [i \in 1..Len(ds) |-> invoiceKey(ds[i], hdrs)]
        order == EntriesOrder(keys)
    IN IF W("INVOICE_NET_TOTAL") \notin Range(hdrs)
            \/ W("LINE_ITEM_TOTAL") \notin Range(hdrs) THEN NoErrors
       ELSE IF availableIdentifiers(hdrs) = <<>> THEN NoErrors
       ELSE IF GroupingThrows(keys) THEN [threw |-> TRUE, errors |-> <<>>]
       ELSE [threw |-> FALSE,
             errors |-> Concat([g \in 1..Len(order) |->
                 NetTotalOfInvoice(ds, hdrs, order[g], RowsOfKey(keys, order[g]))])]

\* RowErrors with the cross-field errors pushed before the field errors
RowErrorsCrossFirst(ds, hdrs, r) ==
    Map(validateCrossFieldRow(ds[r], hdrs) \o validateRow(ds[r], hdrs).errors,
        LAMBDA e : [e EXCEPT !.row = r])

\* The errors of one row of validateDataset, stamped with its row number:
\* the field errors, then the cross-field errors
RowErrors(ds, hdrs, r) ==
    Map(validateRow(ds[r], hdrs).errors \o validateCrossFieldRow(ds[r], hdrs),
        LAMBDA e : [e EXCEPT !.row = r])

\* LedesValidator.validateDataset: a TypeError raised anywhere leaves the
\* call without a result.
validateDataset(ds, hdrs) ==
    LET consistency == validateInvoiceTotalsConsistency(ds, hdrs)
        uniqueness == validateUniqueLineItemNumbers(ds, hdrs)
        netTotal == validateInvoiceNetTotalCalculation(ds, hdrs)
    IN IF \/ \E r \in 1..Len(ds) : validateRow(ds[r], hdrs).threw
          \/ consistency.threw \/ uniqueness.threw \/ netTotal.threw
       THEN [threw |-> TRUE, row_errors |-> <<>>, dataset_errors |-> <<>>]
       ELSE [threw |-> FALSE,
             row_errors |-> Concat([r \in 1..Len(ds) |-> RowErrors(ds, hdrs, r)]),
             dataset_errors |->
                 consistency.errors \o uniqueness.errors \o netTotal.errors]

\* new LedesValidator(): the fields of the instance
newValidator ==
    [validStateCodes |-> validStateCodes,
     fieldValidators |-> DOMAIN fieldValidators]

\* validateDatasetCall that returns the result of the call before it, when
\* there is one, and keeps its own for the next call
validateDatasetCallLagging(v, ds, hdrs) ==
    [validator |-> [validStateCodes |-> v.validStateCodes,
                    fieldValidators |-> v.fieldValidators,
                    memo |-> validateDataset(ds, hdrs)],
     dataset |-> ds,
     headers |-> hdrs,
     result |-> IF "memo" \in DOMAIN v THEN v.memo ELSE validateDataset(ds, hdrs)]

\* validator.validateDataset(dataset, headers) as a method call: the
\* instance and the two arguments as the call leaves them, and what it
\* returns. The method assigns to no field of the instance and to no
\* element of its arguments.
validateDatasetCall(v, ds, hdrs) ==
    [validator |-> v,
     dataset |-> ds,
     headers |-> hdrs,
     result |-> validateDataset(ds, hdrs)]

\* ------------------------------------------------------------------------
\* useLedesData and the page's auto-validate effect
\* ------------------------------------------------------------------------

\* { headers: [...LEDES_HEADERS], rows: [] }
DefaultData == [headers |-> LEDES_HEADERS, rows |-> <<>>]

\* { row_errors: [], dataset_errors: [] }
EmptyResult == [row_errors |-> <<>>, dataset_errors |-> <<>>]

\* data.rows.map((row) => data.headers.map((header) => row[header] || ""))
RowArrays(d) ==
    [r \in 1..Len(d.rows) |->
        [i \in 1..Len(d.headers) |-> RowGet(d.rows[r], d.headers[i])]]

\* A pending setTimeout: its delay, who set it, the data its callback
\* closes over, and the number of the data change that made that data
Timer(delay, kind, snapshot, version) ==
    [delay |-> delay, kind |-> kind, snapshot |-> snapshot, version |-> version]

\* The cleanup of the page's effect: clearTimeout(timer)
WithoutEffect(timers) == SelectSeq(timers, LAMBDA t : t.kind # "effect")

\* The page's effect after a render with new data: the old timer is
\* cleared, and a new one of 300 ms is set when the data has rows
RunEffect(timers, d, version) ==
    WithoutEffect(timers)
      \o (IF Len(d.rows) > 0 THEN <<Timer(300, "effect", d, version)>> ELSE <<>>)

\* setData(d), with the timers set before the next render, and the render:
\* the data change is numbered and the effect runs
SetData(h, d, newTimers) ==
    [h EXCEPT !.data = d,
              !.version = h.version + 1,
              !.timers = RunEffect(h.timers \o newTimers, d, h.version + 1),
              !.ops = h.ops + 1]

\* The state of the hook and the page after the first render
InitialHook ==
    [data |-> DefaultData, validationResult |-> EmptyResult, error |-> "null",
     timers |-> <<>>, loads |-> <<>>, version |-> 0, resultVersion |-> 0,
     ops |-> 0]

\* newRows[rowIndex] = { ...newRows[rowIndex], [columnId]: value }
WithCell(d, rowIndex, columnId, v) ==
    [d EXCEPT !.rows[rowIndex] =
        [h \in DOMAIN d.rows[rowIndex] \cup {columnId} |->
            IF h = columnId THEN v ELSE d.rows[rowIndex][h]]]

\* updateCell: the new data, and a timer of 50 ms on the new data
updateCell(h, rowIndex, columnId, v) ==
    SetData(h, WithCell(h.data, rowIndex, columnId, v),
            <<Timer(50, "updateCell",
                    WithCell(h.data, rowIndex, columnId, v), h.version + 1)>>)

\* addRow
addRow(h) ==
    SetData(h, [h.data EXCEPT !.rows = Append(@, createEmptyRow(h.data.headers))],
            <<>>)

\* deleteRow: rowIndex counts from 0
deleteRow(h, rowIndex) ==
    SetData(h, [h.data EXCEPT !.rows =
                   SubSeq(@, 1, rowIndex) \o SubSeq(@, rowIndex + 2, Len(@))],
            <<>>)

\* insertRow: newRows.splice(atIndex, 0, newRow), atIndex counts from 0
insertRow(h, atIndex) ==
    SetData(h, [h.data EXCEPT !.rows =
                   SubSeq(@, 1, atIndex) \o <<createEmptyRow(h.data.headers)>>
                     \o SubSeq(@, atIndex + 1, Len(@))],
            <<>>)

\* clearData: the default data, the empty result, no error
clearData(h) ==
    [SetData(h, DefaultData, <<>>) EXCEPT
        !.validationResult = EmptyResult,
        !.resultVersion = h.version + 1,
        !.error = "null"]

\* createEmptyDataset(rowCount)
createEmptyDataset(h, rowCount) ==
    SetData(h, [headers |-> LEDES_HEADERS,
                rows |-> [r \in 1..rowCount |-> createEmptyRow(LEDES_HEADERS)]],
            <<>>)

\* loadFile up to its await: setError(null), and the file is being read.
\* The validateData that loadFile closes over is the one of the render in
\* which loadFile was made, hence over the data of that render.
loadFileStart(h, text) ==
    [h EXCEPT !.error = "null",
              !.loads = Append(@, [text |-> text, closure |-> h.data,
                                   version |-> h.version]),
              !.ops = h.ops + 1]

\* The sequence without its i-th element
RemoveAt(seq, i) == SubSeq(seq, 1, i - 1) \o SubSeq(seq, i + 1, Len(seq))

\* loadFile after its await, the file read and parsed as p: on an error
\* setError(err.message); else setData(ledesData) and a timer of 100 ms for
\* the validateData of the closure
loadFileResolved(h, i, p) ==
    IF p.threw
    THEN [h EXCEPT !.error = p.error, !.loads = RemoveAt(@, i)]
    ELSE [SetData(h, [headers |-> p.headers, rows |-> p.rows],
                  <<Timer(100, "loadFile", h.loads[i].closure, h.loads[i].version)>>)
            EXCEPT !.loads = RemoveAt(@, i), !.ops = h.ops]

\* The callback of a timer, its validateDataset having returned r:
\* setValidationResult(result). When validateDataset throws, validateData
\* sets the error and the timer of updateCell sets nothing.
timerFired(h, i, r) ==
    IF r.threw
    THEN [h EXCEPT !.timers = RemoveAt(@, i),
                   !.error = IF h.timers[i].kind = "updateCell" THEN @
                             ELSE "Failed to validate data"]
    ELSE [h EXCEPT !.timers = RemoveAt(@, i),
                   !.validationResult = [row_errors |-> r.row_errors,
                                         dataset_errors |-> r.dataset_errors],
                   !.resultVersion = h.timers[i].version]

\* Timers fire in the order of their due times: the i-th pending timer can
\* fire when no timer set before it has a delay that is not longer.
CanFire(timers, i) ==
    \A j \in 1..(i - 1) : timers[j].delay > timers[i].delay

\* ------------------------------------------------------------------------
\* The runs
\* ------------------------------------------------------------------------

\* The sequences over S of length at most n
SeqsUpTo(S, n) == UNION {[1..k -> S] : k \in 0..n}

\* Most rows of a dataset handed to formatForDownload
MaxCodecRows == 2

\* Most rows of a dataset handed to validateDataset
MaxRows == 2

\* --- the codec: formatForDownload, then parseFile of its text ---

\* Values of the first column: plain, padded with white space, ending in
\* the header marker, holding a delimiter
CodecFirstValues ==
    {<<>>, <<"a">>, <<" ", "a">>, <<"a", " ">>, <<"a", " ", "b">>,
     <<"a", "[", "]">>, <<"a", "|", "b">>, <<"a", "\n", "b">>}

\* Values shared by all the other columns of a row
CodecOtherValues == {<<>>, <<"c">>, <<"c", "[", "]">>}

\* The Record over the canonical headers with first in the first column
\* and other in every other column
CodecRow(first, other) ==
    [h \in Range(LEDES_HEADERS) |-> IF h = LEDES_HEADERS[1] THEN first ELSE other]

CodecRows == {CodecRow(f, o) : f \in CodecFirstValues, o \in CodecOtherValues}

InitCodec ==
    /\ data \in {[headers |-> LEDES_HEADERS, rows |-> rs] :
                    rs \in SeqsUpTo(CodecRows, MaxCodecRows)}
    /\ content = Unused /\ parsed = Unused
    /\ fieldName = Unused /\ value = Unused /\ fieldResult = Unused
    /\ headers = Unused /\ dataset = Unused /\ result = Unused
    /\ crossRow = Unused /\ crossErrors = Unused
    /\ formatResult = Unused /\ calls = Unused /\ hook = Unused
    /\ pc = "data"

\* saveFile -> downloadFile: the text of the dataset
Serialize ==
    /\ pc = "data"
    /\ content' = formatForDownload(data)
    /\ pc' = "text"
    /\ UNCHANGED <<data, parsed, fieldName, value, fieldResult,
                   headers, dataset, result, crossRow, crossErrors,
                   formatResult, calls, hook>>

\* loadFromFile -> parseFile
Parse ==
    /\ pc = "text"
    /\ parsed' = parseFile(content)
    /\ pc' = "parsed"
    /\ UNCHANGED <<data, content, fieldName, value, fieldResult,
                   headers, dataset, result, crossRow, crossErrors,
                   formatResult, calls, hook>>

NextCodec == Serialize \/ Parse

SpecCodec == InitCodec /\ [][NextCodec]_vars

\* --- parseFile of a text read from a file ---

\* Most lines of a text handed to parseFile
MaxLines == 4

\* Lines of a file: a header line, one with a repeated name, the version
\* banner, data lines of two, three and one field, a header-style data
\* line, a blank line and a line of text
FileLines ==
    {<<"A", "[", "]", "|", "B", "[", "]">>,
     <<"A", "[", "]", "|", "A", "[", "]">>,
     <<"LEDES98BI", " ", "V", "1", "[", "]">>,
     <<"x", "|", " ", "y">>,
     <<"x", "|", "y", "|", "z">>,
     <<"x">>,
     <<"x", "[", "]", "|", "y", "[", "]">>,
     <<" ">>}

\* The texts of at most MaxLines lines
FileTexts == {Join(ls, <<"\n">>) : ls \in SeqsUpTo(FileLines, MaxLines)}

InitText ==
    /\ content \in FileTexts
    /\ data = Unused /\ parsed = Unused
    /\ fieldName = Unused /\ value = Unused /\ fieldResult = Unused
    /\ headers = Unused /\ dataset = Unused /\ result = Unused
    /\ crossRow = Unused /\ crossErrors = Unused
    /\ formatResult = Unused /\ calls = Unused /\ hook = Unused
    /\ pc = "text"

\* LedesFileHandler.validateFileFormat(content) on the same text
ValidateFileFormat ==
    /\ pc = "parsed"
    /\ formatResult' = validateFileFormat(content)
    /\ pc' = "formatChecked"
    /\ UNCHANGED <<data, content, parsed, fieldName, value, fieldResult,
                   headers, dataset, result, crossRow, crossErrors,
                   calls, hook>>

NextText == Parse \/ ValidateFileFormat

SpecText == InitText /\ [][NextText]_vars

\* --- validateField on one field name and one value ---

\* A string of n decimal digits for the number i
RECURSIVE PadDigits(_, _)
PadDigits(i, n) ==
    IF n = 0 THEN <<>> ELSE PadDigits(i \div 10, n - 1) \o <<DigitChar(i % 10)>>

DateYears == {0, 4, 99, 100, 1900, 2000, 2023, 2024, 9999}

DateMonths == 0..13

DateDays == 0..32

\* Every YYYYMMDD string over the years, months and days above
DateStrings ==
    {PadDigits(y, 4) \o PadDigits(m, 2) \o PadDigits(d, 2) :
        y \in DateYears, m \in DateMonths, d \in DateDays}

\* Strings that are not eight digits, and empty ones
OtherValues ==
    {<<>>, <<" ">>, <<" ", "\t">>, <<"2", "0", "2", "4", "0", "1", "0">>,
     <<"2", "0", "2", "4", "0", "1", "0", "1", "0">>,
     <<"2", "0", "2", "4", "-", "0", "1", "-", "0", "1">>,
     <<"2", "0", "2", "4", "0", "1", "0", "a">>,
     <<" ", "2", "0", "2", "4", "0", "1", "0", "1">>,
     <<"2", "0", "2", "4", "0", "1", "0", "1", "\n">>,
     <<"1", "2">>, <<"1", ".", "5">>, <<"0", "7">>, <<"a", "b", "c">>,
     <<"U", "S", "D">>, <<"F">>, <<"i", "e">>, <<"a", "|", "b">>,
     <<"$", "5">>, <<"N", "Y">>}

DateFieldNames ==
    {W("INVOICE_DATE"), W("BILLING_START_DATE"), W("BILLING_END_DATE"),
     W("LINE_ITEM_DATE")}

\* Every field with a rule, fields without one, names no file format
\* knows, and names inherited from Object.prototype
FieldNames ==
    {W(n) : n \in DOMAIN fieldValidators}
      \cup {W("INVOICE_NUMBER"), W("INVOICE_TOTAL"), W("RESERVED1"),
            W("NOTES"), <<>>, W("constructor"), W("valueOf")}

InitField ==
    /\ \/ fieldName \in DateFieldNames /\ value \in DateStrings
       \/ fieldName \in FieldNames /\ value \in OtherValues
    /\ fieldResult = Unused
    /\ data = Unused /\ content = Unused /\ parsed = Unused
    /\ headers = Unused /\ dataset = Unused /\ result = Unused
    /\ crossRow = Unused /\ crossErrors = Unused
    /\ formatResult = Unused /\ calls = Unused /\ hook = Unused
    /\ pc = "field"

ValidateField ==
    /\ pc = "field"
    /\ fieldResult' = validateField(fieldName, value)
    /\ pc' = "fieldValidated"
    /\ UNCHANGED <<data, content, parsed, fieldName, value,
                   headers, dataset, result, crossRow, crossErrors,
                   formatResult, calls, hook>>

NextField == ValidateField

SpecField == InitField /\ [][NextField]_vars

\* --- validateDataset on one dataset ---

INVOICE_NUMBER == W("INVOICE_NUMBER")

INVOICE_TOTAL == W("INVOICE_TOTAL")

INVOICE_NET_TOTAL == W("INVOICE_NET_TOTAL")

LINE_ITEM_NUMBER == W("LINE_ITEM_NUMBER")

LINE_ITEM_TOTAL == W("LINE_ITEM_TOTAL")

\* Invoice numbers: two that are array indices, one that is not, and a
\* name every object inherits
InvoiceNumberValues == {<<"5">>, <<"3">>, <<"A">>, W("constructor")}

\* Invoice totals: empty, 9, 10, 10 written with a currency sign, no number
InvoiceTotalValues ==
    {<<>>, <<"9">>, <<"1", "0">>, <<"$", "1", "0", ".", "0", "0">>, <<"n", "/", "a">>}

LineItemNumberValues == {<<>>, <<" ">>, <<"5">>, <<"3">>, W("constructor")}

NetTotalValues == {<<>>, <<"1", "0">>, <<"1", "0", ".", "0", "1">>, <<"n", "/", "a">>}

LineTotalValues == {<<>>, <<"4">>, <<"6">>, <<"x">>}

\* Firm and client names, with and without the separator of the invoice key
NameValues == {<<"a">>, <<"a", "|", "b">>, <<"b", "|", "c">>, <<"c">>}

\* The header lists validated, each with the values of its columns and the
\* number of rows it may hold beyond MaxRows
DatasetShapes ==
    {[headers |-> <<INVOICE_NUMBER, INVOICE_TOTAL>>,
      columns |-> <<InvoiceNumberValues, InvoiceTotalValues>>, extra |-> 0],
     [headers |-> <<LINE_ITEM_NUMBER>>,
      columns |-> <<LineItemNumberValues \ {<<" ">>}>>, extra |-> 2],
     [headers |-> <<INVOICE_NUMBER, LINE_ITEM_NUMBER>>,
      columns |-> <<{<<"5">>, <<"3">>}, LineItemNumberValues>>, extra |-> 0],
     [headers |-> <<INVOICE_NUMBER, INVOICE_NET_TOTAL, LINE_ITEM_TOTAL>>,
      columns |-> <<{<<"5">>, <<"3">>, W("constructor")}, NetTotalValues, LineTotalValues>>,
      extra |-> 0],
     [headers |-> <<W("LAW_FIRM_NAME"), W("CLIENT_NAME"), INVOICE_TOTAL>>,
      columns |-> <<NameValues, NameValues, {<<"9">>, <<"1", "0">>}>>, extra |-> 0],
     [headers |-> <<W("valueOf"), W("NOTES"), INVOICE_TOTAL>>,
      columns |-> <<{<<>>, <<"x">>}, {<<>>, <<"a", "|", "b">>}, {<<"9">>}>>,
      extra |-> 0],
     [headers |-> <<W("LINE_ITEM_TYPE"), W("LINE_ITEM_TASK_CODE"),
                    W("LINE_ITEM_NUMBER_OF_UNITS")>>,
      columns |-> <<{<<>>, <<"F">>, <<"X">>}, {<<>>, <<"a">>},
                    {<<>>, <<"2">>, <<"x">>}>>,
      extra |-> 0]}

\* The rows of a shape: one value per column, or a row cut short by one or
\* more columns
RowsOfShape(shape) ==
    LET n == Len(shape.headers)
        full == {r \in [1..n -> UNION Range(shape.columns)] :
                    \A i \in 1..n : r[i] \in shape.columns[i]}
    IN IF shape.headers[1] = W("valueOf")
       THEN {SubSeq(r, 1, k) : r \in full, k \in 1..n}
       ELSE full

InitDataset ==
    /\ \E shape \in DatasetShapes :
          /\ headers = shape.headers
          /\ dataset \in SeqsUpTo(RowsOfShape(shape), MaxRows + shape.extra)
    /\ result = Unused
    /\ data = Unused /\ content = Unused /\ parsed = Unused
    /\ fieldName = Unused /\ value = Unused /\ fieldResult = Unused
    /\ crossRow = Unused /\ crossErrors = Unused
    /\ formatResult = Unused /\ calls = Unused /\ hook = Unused
    /\ pc = "dataset"

\* validateData / the timer of updateCell: validator.validateDataset(rowArrays, headers)
ValidateDataset ==
    /\ pc = "dataset"
    /\ result' = validateDataset(dataset, headers)
    /\ pc' = "datasetValidated"
    /\ UNCHANGED <<data, content, parsed, fieldName, value, fieldResult,
                   headers, dataset, crossRow, crossErrors,
                   formatResult, calls, hook>>

NextDataset == ValidateDataset

SpecDataset == InitDataset /\ [][NextDataset]_vars

\* --- validateDataset called again and again on one validator ---

\* Most calls made on the instance
MaxCalls == 3

\* The snapshots handed to the calls: header lists and rows
CallSnapshots ==
    {[headers |-> <<INVOICE_NUMBER, INVOICE_TOTAL>>, rows |-> rs] :
        rs \in SeqsUpTo({<<<<"5">>, <<"9">>>>, <<<<"5">>, <<"1", "0">>>>}, 2)}
      \cup {[headers |-> <<W("INVOICE_DATE")>>, rows |-> <<<<<<"x">>>>>>],
            [headers |-> <<LINE_ITEM_NUMBER>>, rows |-> <<<<<<"3">>>>, <<<<"3">>>>>>]}

InitCalls ==
    /\ calls = [validator |-> newValidator, history |-> <<>>]
    /\ data = Unused /\ content = Unused /\ parsed = Unused
    /\ fieldName = Unused /\ value = Unused /\ fieldResult = Unused
    /\ headers = Unused /\ dataset = Unused /\ result = Unused
    /\ crossRow = Unused /\ crossErrors = Unused
    /\ formatResult = Unused /\ hook = Unused
    /\ pc = "calls"

\* The instance after a call, and the history with the call added: what it
\* was given, what it left of it and what it returned
AfterCall(history, snap, c) ==
    [validator |-> c.validator,
     history |-> Append(history,
         [dataset |-> snap.rows, headers |-> snap.headers,
          datasetAfter |-> c.dataset, headersAfter |-> c.headers,
          result |-> c.result])]

\* One more call of validator.validateDataset, on any snapshot
CallValidateDataset ==
    /\ pc = "calls"
    /\ Len(calls.history) < MaxCalls
    /\ \E snap \in CallSnapshots :
          calls' = AfterCall(calls.history, snap,
              validateDatasetCall(calls.validator, snap.rows, snap.headers))
    /\ UNCHANGED <<data, content, parsed, fieldName, value, fieldResult,
                   headers, dataset, result, crossRow, crossErrors,
                   formatResult, hook, pc>>

NextCalls == CallValidateDataset

SpecCalls == InitCalls /\ [][NextCalls]_vars

\* --- the hook: operations of the user, file reads and timers ---

\* Most operations of the user in one run
MaxOps == 3

\* Most rows the user adds up to
MaxHookRows == 2

\* The files loaded: a header line and a line with a value that is no date,
\* a header line alone, and a blank file
HookFiles ==
    {<<"INVOICE_DATE", "[", "]", "|", "INVOICE_NUMBER", "[", "]", "\n",
       "x", "|", "1">>,
     <<"INVOICE_DATE", "[", "]", "|", "INVOICE_NUMBER", "[", "]">>,
     <<" ">>}

\* The values typed into a cell of INVOICE_DATE: no date, and a date
HookCellValues == {<<"x">>, PadDigits(20240101, 8)}

InitHook ==
    /\ hook = InitialHook
    /\ data = Unused /\ content = Unused /\ parsed = Unused
    /\ fieldName = Unused /\ value = Unused /\ fieldResult = Unused
    /\ headers = Unused /\ dataset = Unused /\ result = Unused
    /\ crossRow = Unused /\ crossErrors = Unused
    /\ formatResult = Unused /\ calls = Unused
    /\ pc = "hook"

HookUnchanged ==
    UNCHANGED <<data, content, parsed, fieldName, value, fieldResult,
                headers, dataset, result, crossRow, crossErrors,
                formatResult, calls, pc>>

LoadFile ==
    /\ pc = "hook" /\ hook.ops < MaxOps
    /\ \E text \in HookFiles : hook' = loadFileStart(hook, text)
    /\ HookUnchanged

FileRead ==
    /\ pc = "hook"
    /\ \E i \in 1..Len(hook.loads) :
          hook' = loadFileResolved(hook, i, parseFile(hook.loads[i].text))
    /\ HookUnchanged

UpdateCell ==
    /\ pc = "hook" /\ hook.ops < MaxOps
    /\ \E rowIndex \in 1..Len(hook.data.rows), v \in HookCellValues :
          hook' = updateCell(hook, rowIndex, W("INVOICE_DATE"), v)
    /\ HookUnchanged

AddRow ==
    /\ pc = "hook" /\ hook.ops < MaxOps
    /\ Len(hook.data.rows) < MaxHookRows
    /\ hook' = addRow(hook)
    /\ HookUnchanged

InsertRow ==
    /\ pc = "hook" /\ hook.ops < MaxOps
    /\ Len(hook.data.rows) < MaxHookRows
    /\ \E atIndex \in 0..Len(hook.data.rows) : hook' = insertRow(hook, atIndex)
    /\ HookUnchanged

DeleteRow ==
    /\ pc = "hook" /\ hook.ops < MaxOps
    /\ \E rowIndex \in 0..(Len(hook.data.rows) - 1) :
          hook' = deleteRow(hook, rowIndex)
    /\ HookUnchanged

ClearData ==
    /\ pc = "hook" /\ hook.ops < MaxOps
    /\ hook' = clearData(hook)
    /\ HookUnchanged

CreateEmptyDataset ==
    /\ pc = "hook" /\ hook.ops < MaxOps
    /\ \E rowCount \in 1..2 : hook' = createEmptyDataset(hook, rowCount)
    /\ HookUnchanged

TimerFires ==
    /\ pc = "hook"
    /\ \E i \in 1..Len(hook.timers) :
          /\ CanFire(hook.timers, i)
          /\ hook' = timerFired(hook, i,
                 validateDataset(RowArrays(hook.timers[i].snapshot),
                                 hook.timers[i].snapshot.headers))
    /\ HookUnchanged

NextHook ==
    LoadFile \/ FileRead \/ UpdateCell \/ AddRow \/ InsertRow \/ DeleteRow
      \/ ClearData \/ CreateEmptyDataset \/ TimerFires

SpecHook == InitHook /\ [][NextHook]_vars

\* --- validateCrossFieldRow on one row ---

LINE_ITEM_TYPE == W("LINE_ITEM_TYPE")

LINE_ITEM_NUMBER_OF_UNITS == W("LINE_ITEM_NUMBER_OF_UNITS")

LINE_ITEM_UNIT_COST == W("LINE_ITEM_UNIT_COST")

LINE_ITEM_ADJUSTMENT_AMOUNT == W("LINE_ITEM_ADJUSTMENT_AMOUNT")

LINE_ITEM_TAX_TOTAL == W("LINE_ITEM_TAX_TOTAL")

LINE_ITEM_TASK_CODE == W("LINE_ITEM_TASK_CODE")

LINE_ITEM_DESCRIPTION == W("LINE_ITEM_DESCRIPTION")

TIMEKEEPER_ID == W("TIMEKEEPER_ID")

LINE_ITEM_EXPENSE_CODE == W("LINE_ITEM_EXPENSE_CODE")

\* Line item types: none, blank, fee, expense, the two adjustments in
\* either case, and a code of no type
LineItemTypeValues ==
    {<<>>, <<" ">>, <<"F">>, <<"f">>, <<"E">>, <<"e">>, <<"I", "F">>,
     <<"i", "e">>, <<"X">>}

\* Values of a field a line item type requires
RequiredValues == {<<>>, <<" ">>, <<"a">>}

\* Numbers of units: none, blank, zero in three spellings, two, no number
UnitsValues ==
    {<<>>, <<" ">>, <<"0">>, <<"0", ".", "0">>, <<"-", "0">>, <<"2">>, <<"x">>}

\* Unit costs: none, blank, zero with a currency sign, a bare sign, 100 with
\* and without a currency sign
UnitCostValues ==
    {<<>>, <<" ">>, <<"$", "0", ".", "0", "0">>, <<"$">>, <<"1", "0", "0">>,
     <<"$", "1", "0", "0">>}

AdjustmentValues == {<<>>, <<" ">>, <<"0">>, <<"1">>, <<"-", "1">>}

TaxValues == {<<>>, <<"0">>, <<"0", ".", "5">>}

\* Line totals around 200: the expected value, one and a half below, the
\* tolerance above, one above, and no number
LineItemTotalValues ==
    {<<>>, <<"2", "0", "0">>, <<"1", "9", "9">>, <<"1", "9", "9", ".", "5">>,
     <<"2", "0", "0", ".", "0", "1">>, <<"2", "0", "1">>, <<"a", "b", "c">>}

\* The header lists cross-validated, each with the values of its columns
\* Billing dates: empty, blank, no date, the 30th of February, and four
\* dates across a month end and a year end
BillingDateValues ==
    {<<>>, <<" ">>, <<"x">>, PadDigits(20240230, 8), PadDigits(20231231, 8),
     PadDigits(20240101, 8), PadDigits(20240131, 8), PadDigits(20240201, 8)}

CrossShapes ==
    {[headers |-> <<LINE_ITEM_TYPE, LINE_ITEM_TASK_CODE, TIMEKEEPER_ID,
                    LINE_ITEM_DESCRIPTION, LINE_ITEM_EXPENSE_CODE>>,
      columns |-> <<LineItemTypeValues, RequiredValues, RequiredValues,
                    RequiredValues, RequiredValues>>, extra |-> 0],
     [headers |-> <<LINE_ITEM_TYPE, LINE_ITEM_NUMBER_OF_UNITS, LINE_ITEM_UNIT_COST>>,
      columns |-> <<LineItemTypeValues, UnitsValues, UnitCostValues>>, extra |-> 0],
     [headers |-> <<LINE_ITEM_NUMBER_OF_UNITS, LINE_ITEM_UNIT_COST,
                    LINE_ITEM_ADJUSTMENT_AMOUNT, LINE_ITEM_TAX_TOTAL,
                    LINE_ITEM_TOTAL>>,
      columns |-> <<UnitsValues, UnitCostValues, AdjustmentValues, TaxValues,
                    LineItemTotalValues>>, extra |-> 0],
     [headers |-> <<LINE_ITEM_NUMBER_OF_UNITS, LINE_ITEM_UNIT_COST, LINE_ITEM_TOTAL>>,
      columns |-> <<UnitsValues, UnitCostValues, LineItemTotalValues>>, extra |-> 0],
     [headers |-> <<W("BILLING_START_DATE"), W("BILLING_END_DATE")>>,
      columns |-> <<BillingDateValues, BillingDateValues>>, extra |-> 0]}

\* A row under the canonical header list: the type, the task code and the
\* description given, every other value empty
CanonicalRow(type, taskCode, description) ==
    [i \in 1..Len(LEDES_HEADERS) |->
        IF LEDES_HEADERS[i] = LINE_ITEM_TYPE THEN type
        ELSE IF LEDES_HEADERS[i] = LINE_ITEM_TASK_CODE THEN taskCode
        ELSE IF LEDES_HEADERS[i] = LINE_ITEM_DESCRIPTION THEN description
        ELSE <<>>]

InitCross ==
    /\ \/ \E shape \in CrossShapes :
             /\ headers = shape.headers
             /\ crossRow \in RowsOfShape(shape)
       \/ /\ headers = LEDES_HEADERS
          /\ crossRow \in {CanonicalRow(t, c, d) : t \in LineItemTypeValues,
                               c \in RequiredValues, d \in RequiredValues}
    /\ crossErrors = Unused
    /\ data = Unused /\ content = Unused /\ parsed = Unused
    /\ fieldName = Unused /\ value = Unused /\ fieldResult = Unused
    /\ dataset = Unused /\ result = Unused
    /\ formatResult = Unused /\ calls = Unused /\ hook = Unused
    /\ pc = "row"

\* validator.validateCrossFieldRow(rowData, headers)
ValidateCrossFieldRow ==
    /\ pc = "row"
    /\ crossErrors' = validateCrossFieldRow(crossRow, headers)
    /\ pc' = "rowValidated"
    /\ UNCHANGED <<data, content, parsed, fieldName, value, fieldResult,
                   headers, dataset, result, crossRow,
                   formatResult, calls, hook>>

NextCross == ValidateCrossFieldRow

SpecCross == InitCross /\ [][NextCross]_vars

\* The runs side by side
Init == InitCodec \/ InitText \/ InitField \/ InitDataset \/ InitCross
          \/ InitCalls \/ InitHook

Next == Serialize \/ Parse \/ ValidateField \/ ValidateDataset
          \/ ValidateCrossFieldRow \/ CallValidateDataset
          \/ ValidateFileFormat \/ NextHook

Spec == Init /\ [][Next]_vars

\* ------------------------------------------------------------------------
\* Claims
\* ------------------------------------------------------------------------

\* No value of the dataset holds a pipe or a newline
NoDelimiterInValues(d) ==
    \A r \in 1..Len(d.rows) : \A h \in DOMAIN d.rows[r] :
        ~Includes(d.rows[r][h], "|") /\ ~Includes(d.rows[r][h], "\n")

\* No value of the dataset starts or ends with white space
ValuesTrimmed(d) ==
    \A r \in 1..Len(d.rows) : \A h \in DOMAIN d.rows[r] :
        Trim(d.rows[r][h]) = d.rows[r][h]

\* No row of the dataset has every value ending in the header marker []
NoHeaderLikeRow(d) ==
    \A r \in 1..Len(d.rows) : \E h \in DOMAIN d.rows[r] :
        ~EndsWith(d.rows[r][h], <<"[", "]">>)

ParsedEqualsData ==
    /\ ~parsed.threw
    /\ parsed.headers = data.headers
    /\ parsed.rows = data.rows

\* C1 (as stated): for every dataset with the canonical headers whose values
\* hold no pipe and no newline, parse(serialize(d)) equals d.
C1_RoundTrip ==
    (pc = "parsed" /\ data.headers = LEDES_HEADERS /\ NoDelimiterInValues(data))
        => ParsedEqualsData

\* C1 (amended): for every dataset with the canonical headers whose values
\* hold no pipe and no newline and have no leading or trailing white space,
\* and in which no row has every value ending in "[]", parse(serialize(d))
\* equals d: same headers, same rows in the same order, same values.
C1_RoundTripOfTrimmedValues ==
    (/\ pc = "parsed" /\ data.headers = LEDES_HEADERS
     /\ NoDelimiterInValues(data) /\ ValuesTrimmed(data) /\ NoHeaderLikeRow(data))
        => ParsedEqualsData

\* A dataset of two rows, with inner white space and with a value ending in
\* "[]", has gone through serialize and parse and come back equal.
C1_Witness ==
    /\ pc = "parsed"
    /\ Len(data.rows) = 2
    /\ data.rows[1][LEDES_HEADERS[1]] = <<"a", " ", "b">>
    /\ data.rows[2][LEDES_HEADERS[1]] = <<"a", "[", "]">>
    /\ data.rows[2][LEDES_HEADERS[2]] = <<"c">>
    /\ NoDelimiterInValues(data) /\ ValuesTrimmed(data) /\ NoHeaderLikeRow(data)
    /\ ParsedEqualsData

\* The fields whose rule is a "required" variant
RequiredFieldNames ==
    {W("LINE_ITEM_DATE"), W("LINE_ITEM_TOTAL"), W("INVOICE_NET_TOTAL"),
     W("LAW_FIRM_ID"), W("CLIENT_TAX_ID")}

RequiredMessages ==
    {W("Date is required"), W("Value is required"), W("Field is required")}

\* C3: validateField with an empty or white-space-only value passes for
\* every field except the required ones, for which it fails with a
\* "required" message.
C3_EmptyValue ==
    (pc = "fieldValidated" /\ Trim(value) = <<>>)
        => IF fieldName \in RequiredFieldNames
           THEN /\ ~fieldResult.threw /\ ~fieldResult.valid
                /\ fieldResult.error \in RequiredMessages
           ELSE ~fieldResult.threw /\ fieldResult.valid

IsLeapYear(y) == (y % 4 = 0 /\ y % 100 # 0) \/ y % 400 = 0

DaysInMonth(y, m) ==
    IF m = 2 THEN (IF IsLeapYear(y) THEN 29 ELSE 28)
    ELSE IF m \in {4, 6, 9, 11} THEN 30 ELSE 31

\* s is eight digits YYYYMMDD naming a day of the calendar
IsCalendarDate(s) ==
    /\ Len(s) = 8 /\ \A i \in 1..8 : s[i] \in Digits
    /\ LET y == DigitsToInt(SubSeq(s, 1, 4))
           m == DigitsToInt(SubSeq(s, 5, 6))
           d == DigitsToInt(SubSeq(s, 7, 8))
       IN m >= 1 /\ m <= 12 /\ d >= 1 /\ d <= DaysInMonth(y, m)

\* C4: validateField("INVOICE_DATE", s) passes for every eight-digit string
\* that names a calendar date (years 0000 to 9999) and fails for every other
\* non-empty string.
C4_DateRule ==
    (pc = "fieldValidated" /\ fieldName = W("INVOICE_DATE") /\ Trim(value) # <<>>)
        => /\ ~fieldResult.threw
           /\ fieldResult.valid <=> IsCalendarDate(value)

\* The dataset errors of one check, in the order of the result
ErrorsOfType(type) == SelectSeq(result.dataset_errors, LAMBDA e : e.type = type)

\* The members of a set of row numbers, ascending
RECURSIVE Ascending(_)
Ascending(S) ==
    IF S = {} THEN <<>>
    ELSE LET x == CHOOSE y \in S : \A z \in S : y <= z
         IN <<x>> \o Ascending(S \ {x})

\* Rows i and j agree on every available invoice identifier field
SameInvoice(i, j) ==
    \A k \in 1..Len(availableIdentifiers(headers)) :
        DictGet(dataset[i], headers, availableIdentifiers(headers)[k])
          = DictGet(dataset[j], headers, availableIdentifiers(headers)[k])

\* The invoice of row i: the rows that agree with it on those fields
InvoiceOf(i) == {j \in 1..Len(dataset) : SameInvoice(i, j)}

\* The numbers among the values of field f on the rows S, every character
\* but digits, "." and "-" set aside
NumericValues(S, f) ==
    {x \in {parseFloat(StripNonNumeric(DictGet(dataset[j], headers, f))) : j \in S} :
        ~isNaN(x)}

\* How many errors of the sequence list exactly the rows S
CountFor(errors, S) ==
    Cardinality({k \in 1..Len(errors) : errors[k].affected_rows = Ascending(S)})

\* C2: validateDataset never throws: for every list of rows and every header
\* list it returns a ValidationResult.
C2_NeverThrows == pc = "datasetValidated" => ~result.threw

\* C5 (as stated): a dataset of exactly one row yields no invoice_consistency
\* and no invoice_net_total_calculation error, and neither check flags an
\* invoice of one row.
C5_SingleRowNeverFlagged ==
    pc = "datasetValidated" =>
        \A k \in 1..Len(result.dataset_errors) :
            result.dataset_errors[k].type
                  \in {"invoice_consistency", "invoice_net_total_calculation"}
              => Len(result.dataset_errors[k].affected_rows) > 1

\* C5 (amended): a dataset of exactly one row yields no invoice_consistency
\* error, and every invoice_consistency error lists at least two rows (the
\* net-total check does examine an invoice of one row).
C5_SingleRowConsistent ==
    pc = "datasetValidated" =>
        /\ Len(dataset) = 1 => ErrorsOfType("invoice_consistency") = <<>>
        /\ \A k \in 1..Len(result.dataset_errors) :
              result.dataset_errors[k].type = "invoice_consistency"
                => Len(result.dataset_errors[k].affected_rows) >= 2

\* One row carrying an invoice number and an invoice total has been through
\* the consistency check, and the result holds no error.
C5_Witness ==
    /\ pc = "datasetValidated"
    /\ Len(dataset) = 1
    /\ headers = <<INVOICE_NUMBER, INVOICE_TOTAL>>
    /\ dataset[1] = <<<<"A">>, <<"9">>>>
    /\ ~result.threw
    /\ result.dataset_errors = <<>>

\* C6: for each invoice (rows agreeing on the available identifier fields)
\* of more than one row, exactly one invoice_consistency error is emitted if
\* its rows carry more than one distinct numeric INVOICE_TOTAL and none
\* otherwise; the error lists all the rows of the invoice in row order.
C6_InvoiceTotalConsistency ==
    (/\ pc = "datasetValidated"
     /\ INVOICE_TOTAL \in Range(headers)
     /\ availableIdentifiers(headers) # <<>>)
        => LET errors == ErrorsOfType("invoice_consistency") IN
           /\ \A i \in 1..Len(dataset) :
                 CountFor(errors, InvoiceOf(i))
                   = IF /\ Cardinality(InvoiceOf(i)) > 1
                        /\ Cardinality(NumericValues(InvoiceOf(i), INVOICE_TOTAL)) > 1
                     THEN 1 ELSE 0
           /\ \A k \in 1..Len(errors) :
                 errors[k].affected_rows
                   = Ascending(InvoiceOf(errors[k].affected_rows[1]))

\* The totals an invoice_consistency message lists, in the order listed
ListedTotals(e) ==
    Map(Split(Drop(e.error, 1), ","), LAMBDA t : parseFloat(TrimStart(t)))

\* C7: the message of every invoice_consistency error lists the distinct
\* totals in ascending numeric order.
C7_TotalsAscending ==
    pc = "datasetValidated" =>
        \A k \in 1..Len(result.dataset_errors) :
            result.dataset_errors[k].type = "invoice_consistency"
              => LET listed == ListedTotals(result.dataset_errors[k])
                 IN \A i \in 1..Len(listed) : \A j \in (i + 1)..Len(listed) :
                        NumGt(listed[j], listed[i])

\* The rows whose LINE_ITEM_NUMBER is v
RowsWithLineItemNumber(v) ==
    {i \in 1..Len(dataset) : DictGet(dataset[i], headers, LINE_ITEM_NUMBER) = v}

\* C8: every non-empty LINE_ITEM_NUMBER value on more than one row yields
\* exactly one line_item_uniqueness error naming the value and listing all
\* its rows; a value on one row, and an empty value, yield none.
C8_LineItemUniqueness ==
    (pc = "datasetValidated" /\ LINE_ITEM_NUMBER \in Range(headers))
        => LET errors == ErrorsOfType("line_item_uniqueness") IN
           /\ \A i \in 1..Len(dataset) :
                 LET v == DictGet(dataset[i], headers, LINE_ITEM_NUMBER)
                     named == SelectSeq(errors, LAMBDA e :
                                  e.invoice_identifier = W("LINE_ITEM_NUMBER=") \o v)
                 IN IF Trim(v) # <<>> /\ Cardinality(RowsWithLineItemNumber(v)) > 1
                    THEN /\ Len(named) = 1
                         /\ named[1].affected_rows
                              = Ascending(RowsWithLineItemNumber(v))
                    ELSE named = <<>>
           /\ Len(errors)
                = Cardinality({DictGet(dataset[i], headers, LINE_ITEM_NUMBER) :
                     i \in {j \in 1..Len(dataset) :
                        LET v == DictGet(dataset[j], headers, LINE_ITEM_NUMBER)
                        IN Trim(v) # <<>>
                             /\ Cardinality(RowsWithLineItemNumber(v)) > 1}})

\* The sum of a set of row numbers' parsable LINE_ITEM_TOTAL values
RECURSIVE LineItemSum(_)
LineItemSum(S) ==
    IF S = {} THEN Num(0)
    ELSE LET j == CHOOSE x \in S : TRUE
             v == parseFloat(StripNonNumeric(DictGet(dataset[j], headers, LINE_ITEM_TOTAL)))
         IN NumAdd(IF isNaN(v) THEN Num(0) ELSE v, LineItemSum(S \ {j}))

\* The net-total error is due for the invoice S: a line item contributed a
\* number and the sum is more than 0.01 away from the INVOICE_NET_TOTAL of
\* the first row of S
NetTotalErrorDue(S) ==
    LET first == CHOOSE x \in S : \A y \in S : x <= y
        expected == parseFloat(StripNonNumeric(
                        DictGet(dataset[first], headers, INVOICE_NET_TOTAL)))
    IN /\ NumericValues(S, LINE_ITEM_TOTAL) # {}
       /\ NumGt(NumAbs(NumSub(LineItemSum(S), expected)), Tolerance)

\* C9: for each invoice, one invoice_net_total_calculation error listing all
\* its rows is emitted exactly when at least one line item contributed a
\* valid number and |sum - expected| > 0.01, expected being the
\* INVOICE_NET_TOTAL of the first row; otherwise nothing is emitted for it.
C9_NetTotalCalculation ==
    (/\ pc = "datasetValidated"
     /\ INVOICE_NET_TOTAL \in Range(headers) /\ LINE_ITEM_TOTAL \in Range(headers)
     /\ availableIdentifiers(headers) # <<>>)
        => LET errors == ErrorsOfType("invoice_net_total_calculation") IN
           /\ \A i \in 1..Len(dataset) :
                 CountFor(errors, InvoiceOf(i))
                   = IF NetTotalErrorDue(InvoiceOf(i)) THEN 1 ELSE 0
           /\ \A k \in 1..Len(errors) :
                 errors[k].affected_rows
                   = Ascending(InvoiceOf(errors[k].affected_rows[1]))

\* C10: within each of the three dataset checks the errors come in
\* first-seen order of their groups: the first row of an earlier error
\* precedes the first row of a later one.
C10_FirstSeenOrder ==
    pc = "datasetValidated" =>
        \A type \in {"invoice_consistency", "line_item_uniqueness",
                     "invoice_net_total_calculation"} :
            LET errors == ErrorsOfType(type)
            IN \A i \in 1..Len(errors) : \A j \in (i + 1)..Len(errors) :
                   errors[i].affected_rows[1] < errors[j].affected_rows[1]

\* The value of field f on the row cross-validated
CrossValue(f) == DictGet(crossRow, headers, f)

\* v is empty or white space only
IsBlank(v) == \A i \in 1..Len(v) : v[i] \in WhiteSpace

\* The messages of the type-conditional required fields
RequiredForTypeMessages ==
    {W("Task code is required for fee line items (F)"),
     W("Timekeeper ID is required for fee line items (F)"),
     W("Description is required for fee line items (F)"),
     W("Expense code is required for expense line items (E)")}

\* How many required-field errors the row got on field f
RequiredErrorCount(f) ==
    Cardinality({k \in 1..Len(crossErrors) :
        crossErrors[k].field = f /\ crossErrors[k].error \in RequiredForTypeMessages})

\* 1 when the value of f is empty or white space only, 0 otherwise
DueIfBlank(f) == IF IsBlank(CrossValue(f)) THEN 1 ELSE 0

\* The fields a line item type can require
TypeRequiredFields ==
    {LINE_ITEM_TASK_CODE, TIMEKEEPER_ID, LINE_ITEM_DESCRIPTION, LINE_ITEM_EXPENSE_CODE}

\* C11: a row of type F (in either case) gets exactly one required-field
\* error for each of LINE_ITEM_TASK_CODE, TIMEKEEPER_ID, LINE_ITEM_DESCRIPTION
\* that is empty or white space only (a field the header list lacks reads
\* as empty) and none for the others; a row of type E gets exactly one iff
\* LINE_ITEM_EXPENSE_CODE is empty; every other type, and no type, gets none.
C11_TypeConditionalRequireds ==
    pc = "rowValidated"
        => LET type == toUpperCase(CrossValue(LINE_ITEM_TYPE)) IN
           /\ \A f \in {LINE_ITEM_TASK_CODE, TIMEKEEPER_ID, LINE_ITEM_DESCRIPTION} :
                 RequiredErrorCount(f) = IF type = <<"F">> THEN DueIfBlank(f) ELSE 0
           /\ RequiredErrorCount(LINE_ITEM_EXPENSE_CODE)
                = IF type = <<"E">> THEN DueIfBlank(LINE_ITEM_EXPENSE_CODE) ELSE 0
           /\ \A k \in 1..Len(crossErrors) :
                 crossErrors[k].error \in RequiredForTypeMessages
                   => crossErrors[k].field \in TypeRequiredFields

\* A fee row written in lower case with its three required fields empty has
\* been validated and carries three errors.
C11_Witness ==
    /\ pc = "rowValidated"
    /\ TypeRequiredFields \cup {LINE_ITEM_TYPE} \subseteq Range(headers)
    /\ CrossValue(LINE_ITEM_TYPE) = <<"f">>
    /\ \A f \in {LINE_ITEM_TASK_CODE, TIMEKEEPER_ID, LINE_ITEM_DESCRIPTION} :
          CrossValue(f) = <<>>
    /\ Len(crossErrors) = 3

\* C12: validateCrossFieldRow never emits an error whose field is not in the
\* header list: every error it returns has a column >= 1 that is the
\* position of its field in headers.
C12_CrossErrorsOnPresentFields ==
    pc = "rowValidated" =>
        \A k \in 1..Len(crossErrors) :
            /\ crossErrors[k].field \in Range(headers)
            /\ crossErrors[k].column >= 1
            /\ crossErrors[k].column <= Len(headers)
            /\ headers[crossErrors[k].column] = crossErrors[k].field

\* The row got an error with this message on field f
HasCrossError(f, msg) ==
    \E k \in 1..Len(crossErrors) :
        crossErrors[k].field = f /\ crossErrors[k].error = W(msg)

\* C13: a row whose LINE_ITEM_TYPE is F or E and whose
\* LINE_ITEM_NUMBER_OF_UNITS is empty or parses to exactly 0 gets an error on
\* LINE_ITEM_NUMBER_OF_UNITS; likewise LINE_ITEM_UNIT_COST, empty or 0 once
\* every character but digits, "." and "-" is set aside.
C13_NonAdjustmentQuantity ==
    (/\ pc = "rowValidated"
     /\ toUpperCase(CrossValue(LINE_ITEM_TYPE)) \in {<<"F">>, <<"E">>})
        => /\ (/\ LINE_ITEM_NUMBER_OF_UNITS \in Range(headers)
               /\ \/ CrossValue(LINE_ITEM_NUMBER_OF_UNITS) = <<>>
                  \/ parseFloat(CrossValue(LINE_ITEM_NUMBER_OF_UNITS)) = Num(0))
                => HasCrossError(LINE_ITEM_NUMBER_OF_UNITS,
                     "Units cannot be 0 or null for non-adjustment line items (F, E)")
           /\ (/\ LINE_ITEM_UNIT_COST \in Range(headers)
               /\ \/ CrossValue(LINE_ITEM_UNIT_COST) = <<>>
                  \/ parseFloat(StripNonNumeric(CrossValue(LINE_ITEM_UNIT_COST)))
                       = Num(0))
                => HasCrossError(LINE_ITEM_UNIT_COST,
                     "Unit cost cannot be 0 or null for non-adjustment line items (F, E)")

\* The errors of the line total reconciliation among the errors of the row
ReconciliationErrors ==
    SelectSeq(crossErrors,
              LAMBDA e : e.error # <<>> /\ e.error[1] = "Line item calculation error: ")

\* The number a reconciliation operand stands for: unparsable text is 0
OperandValue(v) == IF isNaN(parseFloat(v)) THEN Num(0) ELSE parseFloat(v)

\* units * unit_cost + adjustment + tax of the row cross-validated, every
\* operand but the units read after setting aside the non-numeric characters
ExpectedLineTotal ==
    NumAdd(NumAdd(NumMul(OperandValue(CrossValue(LINE_ITEM_NUMBER_OF_UNITS)),
                         OperandValue(StripNonNumeric(CrossValue(LINE_ITEM_UNIT_COST)))),
                  OperandValue(StripNonNumeric(CrossValue(LINE_ITEM_ADJUSTMENT_AMOUNT)))),
           OperandValue(StripNonNumeric(CrossValue(LINE_ITEM_TAX_TOTAL))))

\* units, unit cost and line total are all non-empty
ReconciliationApplies ==
    /\ CrossValue(LINE_ITEM_NUMBER_OF_UNITS) # <<>>
    /\ CrossValue(LINE_ITEM_UNIT_COST) # <<>>
    /\ CrossValue(LINE_ITEM_TOTAL) # <<>>

ParticipatingFields ==
    <<LINE_ITEM_NUMBER_OF_UNITS, LINE_ITEM_UNIT_COST>>
      \o (IF CrossValue(LINE_ITEM_ADJUSTMENT_AMOUNT) # <<>>
          THEN <<LINE_ITEM_ADJUSTMENT_AMOUNT>> ELSE <<>>)
      \o (IF CrossValue(LINE_ITEM_TAX_TOTAL) # <<>>
          THEN <<LINE_ITEM_TAX_TOTAL>> ELSE <<>>)
      \o <<LINE_ITEM_TOTAL>>

\* C15: when the line total reconciliation fails its errors all carry the
\* same message, one on each participating field: units, unit cost and line
\* total always, the adjustment iff non-empty, the tax iff non-empty (3 to 5
\* errors, none on an empty adjustment or tax).
C15_SameMessageOnParticipants ==
    (pc = "rowValidated" /\ ReconciliationErrors # <<>>)
        => /\ [k \in 1..Len(ReconciliationErrors) |-> ReconciliationErrors[k].field]
                = ParticipatingFields
           /\ \A k \in 1..Len(ReconciliationErrors) :
                 ReconciliationErrors[k].error = ReconciliationErrors[1].error
           /\ Len(ReconciliationErrors) \in 3..5

\* A reconciliation failed on a row with an adjustment and no tax: four
\* errors.
C15_Witness ==
    /\ pc = "rowValidated"
    /\ CrossValue(LINE_ITEM_ADJUSTMENT_AMOUNT) = <<"1">>
    /\ CrossValue(LINE_ITEM_TAX_TOTAL) = <<>>
    /\ Len(ReconciliationErrors) = 4

\* C16: every record returned by parseFile has exactly as many values as the
\* header list has positions, whatever the text (header lines with repeated
\* names included).
C16_RecordShape ==
    (pc = "parsed" /\ ~parsed.threw)
        => \A k \in 1..Len(parsed.rows) :
              Cardinality(DOMAIN parsed.rows[k]) = Len(parsed.headers)

\* C17: parseFile throws exactly when the text has no non-blank line, that
\* is when every character of the text is white space; for every other text
\* it returns a dataset.
C17_ThrowsIffNoNonBlankLine ==
    pc = "parsed" => (parsed.threw <=> IsBlank(content))

\* parseFile threw on a text of several lines, all blank
C17_Witness ==
    /\ pc = "parsed"
    /\ parsed.threw
    /\ Includes(content, "\n")

\* The lines of the text, blank ones included
TextLines == Split(content, "\n")

\* A pipe-delimited data line: a pipe, and no [] marker
PlainDataLine(line) ==
    Includes(line, "|") /\ ~IncludesStr(line, <<"[", "]">>)

\* The i-th value of a line, "" past its last field
LineValue(line, i) ==
    IF i <= Len(Split(line, "|")) THEN Trim(Split(line, "|")[i]) ELSE <<>>

\* C18: for a text of n pipe-delimited data lines and nothing else, parseFile
\* uses the canonical header list and returns n records, the k-th holding
\* the values of the k-th line.
C18_HeaderOptional ==
    (/\ pc = "parsed"
     /\ \A k \in 1..Len(TextLines) : PlainDataLine(TextLines[k]))
        => /\ ~parsed.threw
           /\ parsed.headers = LEDES_HEADERS
           /\ Len(parsed.rows) = Len(TextLines)
           /\ \A k \in 1..Len(TextLines) : \A i \in 1..Len(LEDES_HEADERS) :
                 parsed.rows[k][LEDES_HEADERS[i]] = LineValue(TextLines[k], i)

\* C19: for every field name without an entry in the rule table
\* validateField applies the generic text rule: a non-empty value fails iff
\* it contains a pipe or is longer than 1000 characters, and passes
\* otherwise.
C19_GenericTextRule ==
    (/\ pc = "fieldValidated"
     /\ ~(Len(fieldName) = 1 /\ fieldName[1] \in DOMAIN fieldValidators)
     /\ ~IsBlank(value))
        => /\ ~fieldResult.threw
           /\ fieldResult.valid <=> ~(Includes(value, "|") \/ StrLen(value) > 1000)

\* The errors of result.row_errors that carry the row number r
ErrorsOfRow(r) == SelectSeq(result.row_errors, LAMBDA e : e.row = r)

\* A list of errors with the row number r on each
Stamped(errs, r) == [k \in 1..Len(errs) |-> [errs[k] EXCEPT !.row = r]]

\* C20: in the result of validateDataset every row error carries the 1-based
\* index of the row that produced it, row_errors is ordered by
\* non-decreasing row number, and the errors of one row are its field-rule
\* errors in column order followed by its cross-field errors.
C20_RowErrorOrder ==
    (pc = "datasetValidated" /\ ~result.threw)
        => /\ \A k \in 1..Len(result.row_errors) :
                 result.row_errors[k].row \in 1..Len(dataset)
           /\ \A k \in 1..(Len(result.row_errors) - 1) :
                 result.row_errors[k].row <= result.row_errors[k + 1].row
           /\ \A r \in 1..Len(dataset) :
                 /\ ErrorsOfRow(r)
                      = Stamped(validateRow(dataset[r], headers).errors, r)
                          \o Stamped(validateCrossFieldRow(dataset[r], headers), r)
                 /\ \A k \in 1..(Len(validateRow(dataset[r], headers).errors) - 1) :
                       validateRow(dataset[r], headers).errors[k].column
                         < validateRow(dataset[r], headers).errors[k + 1].column

\* Both rows have errors, and the second has a field error on its third
\* column followed by a cross-field error on its second
C20_Witness ==
    /\ pc = "datasetValidated"
    /\ ~result.threw
    /\ Len(dataset) = 2
    /\ Len(result.row_errors) >= 3
    /\ result.row_errors[1].row = 1
    /\ \E k \in 2..(Len(result.row_errors) - 1) :
          /\ result.row_errors[k].row = 2
          /\ result.row_errors[k].column = 3
          /\ result.row_errors[k + 1].row = 2
          /\ result.row_errors[k + 1].column = 2

FirstNonBlankLine ==
    TextLines[CHOOSE i \in 1..Len(TextLines) :
                 /\ ~IsBlank(TextLines[i])
                 /\ \A j \in 1..(i - 1) : IsBlank(TextLines[j])]

\* C22: validateFileFormat never throws and returns invalid with three
\* distinct messages in three cases: a text without a non-blank line, a first
\* non-blank line without a pipe, and a parse that gives no record; in every
\* other case it returns valid.
C22_FormatVerdicts ==
    pc = "formatChecked"
        => formatResult =
             IF IsBlank(content)
             THEN [isValid |-> FALSE, error |-> W("File is empty")]
             ELSE IF ~Includes(FirstNonBlankLine, "|")
             THEN [isValid |-> FALSE,
                   error |-> W("File does not appear to be pipe-delimited")]
             ELSE IF parsed.rows = <<>>
             THEN [isValid |-> FALSE,
                   error |-> W("No data rows found in file (only headers detected)")]
             ELSE [isValid |-> TRUE]

\* A text of a header line and nothing else was reported as header only
C22_Witness ==
    /\ pc = "formatChecked"
    /\ ~parsed.threw
    /\ parsed.headers = <<<<"A">>, <<"B">>>>
    /\ parsed.rows = <<>>
    /\ formatResult.error
         = W("No data rows found in file (only headers detected)")

\* C29: validateFileFormat agrees with parseFile: every text from which
\* parseFile returns at least one record is reported valid, a text that
\* starts with the version banner included.
C29_FormatAgreesWithParse ==
    (pc = "formatChecked" /\ ~parsed.threw /\ parsed.rows # <<>>)
        => formatResult.isValid

\* C24: every dataset error returned by validateDataset has a list of
\* affected rows that is strictly ascending (so without duplicates) and
\* holds only row numbers between 1 and the number of rows of the dataset.
C24_AffectedRowsAscending ==
    (pc = "datasetValidated" /\ ~result.threw)
        => \A e \in 1..Len(result.dataset_errors) :
              /\ \A k \in 1..Len(result.dataset_errors[e].affected_rows) :
                    result.dataset_errors[e].affected_rows[k] \in 1..Len(dataset)
              /\ \A k \in 1..(Len(result.dataset_errors[e].affected_rows) - 1) :
                    result.dataset_errors[e].affected_rows[k]
                      < result.dataset_errors[e].affected_rows[k + 1]

\* Two errors, one of them on rows that are not next to each other
C24_Witness ==
    /\ pc = "datasetValidated"
    /\ ~result.threw
    /\ Len(result.dataset_errors) >= 2
    /\ \E e \in 1..Len(result.dataset_errors) :
          result.dataset_errors[e].affected_rows = <<1, 3>>

\* The errors of the row on the two billing dates
BillingErrors ==
    SelectSeq(crossErrors,
              LAMBDA e : e.field \in {W("BILLING_START_DATE"), W("BILLING_END_DATE")})

\* Both billing dates pass the date rule and the end is the earlier one:
\* valid dates of eight digits compare as their numbers do
EndBeforeStart ==
    /\ validateDate(CrossValue(W("BILLING_START_DATE"))).valid
    /\ validateDate(CrossValue(W("BILLING_END_DATE"))).valid
    /\ DigitsToInt(CrossValue(W("BILLING_END_DATE")))
         < DigitsToInt(CrossValue(W("BILLING_START_DATE")))

C26_OnlyFeeAndExpense ==
    (/\ pc = "rowValidated"
     /\ toUpperCase(CrossValue(LINE_ITEM_TYPE)) \notin {<<"F">>, <<"E">>})
        => /\ ~HasCrossError(LINE_ITEM_NUMBER_OF_UNITS,
                 "Units cannot be 0 or null for non-adjustment line items (F, E)")
           /\ ~HasCrossError(LINE_ITEM_UNIT_COST,
                 "Unit cost cannot be 0 or null for non-adjustment line items (F, E)")

\* The errors of the two checks that group the rows by invoice
InvoiceErrors ==
    SelectSeq(result.dataset_errors,
              LAMBDA e : e.type \in {"invoice_consistency",
                                     "invoice_net_total_calculation"})

\* The identifier of the invoice of row i: each available identifier field
\* with the row's own value, the fields without a value left out
IdentifierOfRow(i) ==
    Join(SelectSeq([k \in 1..Len(availableIdentifiers(headers)) |->
                       availableIdentifiers(headers)[k] \o <<"=">>
                         \o DictGet(dataset[i], headers,
                                    availableIdentifiers(headers)[k])],
                   LAMBDA part : ~EndsWith(part, <<"=">>)),
         <<",", " ">>)

\* C30: invoice grouping is exact in the invoice total check and in the net
\* total check: the rows an error names are the rows that agree with its
\* first row on every available identifier field, no more and no fewer,
\* whatever the values (the "|" of the key included), and the error's
\* invoice_identifier gives each identifier field with that group's value.
C30_ExactGrouping ==
    (pc = "datasetValidated" /\ ~result.threw)
        => \A e \in 1..Len(InvoiceErrors) :
              /\ Range(InvoiceErrors[e].affected_rows)
                   = InvoiceOf(InvoiceErrors[e].affected_rows[1])
              /\ InvoiceErrors[e].invoice_identifier
                   = IdentifierOfRow(InvoiceErrors[e].affected_rows[1])

\* Nothing is pending in the hook: no file is being read, no timer is set
Quiescent == hook.loads = <<>> /\ hook.timers = <<>>

\* validateDataset of the hook's current data, as setValidationResult
\* would store it
ValidationOfCurrentData ==
    [row_errors |->
        validateDataset(RowArrays(hook.data), hook.data.headers).row_errors,
     dataset_errors |->
        validateDataset(RowArrays(hook.data), hook.data.headers).dataset_errors]

\* C27: automatic validation reaches the current data: after any sequence
\* of loadFile, createEmptyDataset, updateCell, addRow, insertRow, deleteRow
\* and clearData, once every file is read and every timer has fired, the
\* hook's validationResult is validateDataset of the current data, also
\* when the data is left with no row.
C27_ValidationReachesData ==
    (pc = "hook" /\ Quiescent)
        => hook.validationResult = ValidationOfCurrentData

\* C28: last write wins: the retained validationResult is never replaced by
\* one computed from an older data snapshot than the one it was computed
\* from or reset for, under any interleaving of the timers of updateCell
\* (50 ms), loadFile (100 ms) and the effect (300 ms) with clearData.
C28_LastWriteWins ==
    [][pc = "hook" => hook'.resultVersion >= hook.resultVersion]_vars

\* Position i of the list: names pairwise distinct
C23_Distinct ==
    \A i, j \in 1..Len(LEDES_HEADERS) :
        LEDES_HEADERS[i] = LEDES_HEADERS[j] => i = j

\* C23: the canonical header list is a fixed list of exactly 52 pairwise
\* distinct field names, and the hook's data has exactly this list, in this
\* order, whenever it did not come from a file with a header line.
C23_CanonicalHeaders ==
    /\ Len(LEDES_HEADERS) = 52
    /\ C23_Distinct
    /\ (pc = "hook" /\ hook.data.headers # LEDES_HEADERS)
          => hook.data.headers = <<W("INVOICE_DATE"), W("INVOICE_NUMBER")>>

====
